---------------------------- MODULE Spec2Model ----------------------------
(***************************************************************************)
(* A model of the Benford's Law web application (src/app.py and the        *)
(* src/benford package).  Each component of the program is a group of      *)
(* variables with its own initial condition and actions; a specification   *)
(* per component runs that component while the others stay idle.           *)
(***************************************************************************)
EXTENDS Integers, Sequences, FiniteSets, TLC

\* Python's None
None == "None"

(***************************************************************************)
(* Bounds of the model                                                     *)
(***************************************************************************)
\* the monotonic clock runs over 0..MaxTime
MaxTime == 4
\* the limiter is constructed with max_requests in 1..MaxMaxRequests
MaxMaxRequests == 2
\* the limiter is constructed with window_seconds in 1..MaxWindow
MaxWindow == 2

\* the clock of the concurrent specification runs over 0..MaxConcTime
MaxConcTime == 3

\* a token is a string of at most MaxTokenLen characters
MaxTokenLen == 2

\* a raw filename has at most MaxNameLen characters
MaxNameLen == 4

\* the clock stops here when limiters are reset, and when one is built
MaxResetTime == 1
MaxBuildTime == 1

\* an identifier is followed for this many admissions
MaxAdmissions == 2

\* client identifiers (request.remote_addr)
Keys == {"10.0.0.1", "10.0.0.2"}
\* the identifier the concurrent threads all check
ConcKey == "10.0.0.1"
\* request-handling threads
Threads == {"t1", "t2"}

VARIABLES
    \* ---- InMemoryRateLimiter (src/app.py:144-165)
    max_requests,     \* self.max_requests
    window_seconds,   \* self.window_seconds
    store,            \* self.store: identifier -> list of timestamps
    lock,             \* self.lock: None or the thread holding it
    clock,            \* time.monotonic()
    pc,               \* per thread: position inside check()
    tkey,             \* per thread: the key argument of check()
    tnow,             \* per thread: the local `now` of check()
    lastCheck,        \* the last check() that returned: [key, now, ok]
    admitted,         \* history: identifier -> every timestamp admitted so far
    \* ---- CSRF token of the session (src/app.py:297-310)
    session_csrf,     \* session.get('csrf_token')
    csrfCall,         \* the last validate_csrf call: [form, expected, result]
    \* ---- the file system under the two roots, and secure-name resolution
    links,            \* root -> where a symlink named LinkName inside it points
    examplePresent,   \* whether EXAMPLES_ROOT/ExampleName exists
    filename,         \* the raw filename a request carries
    pathCall,         \* the build_*_path call made: [fn, raw, outcome, safe, path]
    \* ---- credential vault (src/benford/external_data.py:41-64)
    vaultToken,       \* the token at hand: what encrypt returned, or a forgery
    vaultOrigin,      \* how the token came about: [by, secret, creds]
    decryptCall,       \* the decrypt_credentials call made: [secret, origin, outcome, ...]
    \* ---- interpret_results (src/benford/interpretation.py:4-47)
    interpArgs,       \* the arguments: [p_value, chi_squared, dataset_name, expectation]
    interpCall,        \* what the call returned: [outcome, headline, detail, guidance]
    \* ---- BenfordAnalyzer.load_data (src/benford/analyzer.py:32-48)
    csvFile,          \* what is at csv_path: [exists, parses, columns]
    column,           \* self.column
    loadCall,          \* what load_data did: [outcome, message, series]
    \* ---- the managed folders and cleanup_stale_files (src/app.py:240-255)
    dirs,             \* folder -> (name -> [kind, mtime, data]) of its direct children
    roots,            \* the folders that exist
    sweepCall,         \* the last cleanup_stale_files call: [root, older_than, now, removed, failed]
    \* ---- the web application's requests (src/app.py:258-290, 449-827)
    retention_age,    \* RETENTION_AGE
    cleanup_interval, \* CLEANUP_INTERVAL
    last_cleanup_at,  \* app.config['LAST_CLEANUP_AT']
    kaggle_store,     \* session['kaggle']: [present, has_token, token, expires_at, calls]
    kaggle_cache,     \* _KAGGLE_CACHE: cache key -> [value, expires_at]
    response,          \* the last response: [seq, endpoint, csrf, status, flash]
    \* ---- RedisRateLimiter (src/app.py:167-198)
    redis_zsets,      \* the store: key name -> sorted set of [member, score]
    redis_expire_at,  \* the store: key name -> when the key expires (ms), or NoTime
    redisCheck,        \* the last RedisRateLimiter.check: [key, now_ms, count, ok]
    \* ---- BenfordAnalyzer.run (src/benford/analyzer.py:50-86)
    runArgs,          \* [plot_path, report_path, fault]: the paths given, and which write fails
    runCall,           \* what run() did: [outcome, plot_written, report_written, results_set]
    \* ---- the remote catalog as one session uses it (src/app.py:658-775)
    remote_times,     \* each kaggle_source search/get_metadata/download made: [at, ok]
    catalogCall,       \* the last catalog request: [endpoint, hit, ops, size, remaining_before, remaining_after]
    \* ---- the file writes of concurrent requests (src/app.py:331-334, 481-494, 745-748)
    inflight,          \* per thread: the write it is making, [kind, path], or NoWrite
    \* ---- validate_dataset_ref (src/benford/external_data.py:74-79)
    refArg,           \* the reference passed
    refCall,           \* what the call did: [outcome, value]
    \* ---- KaggleDataSource.authenticate (src/benford/external_data.py:115-143)
    environ,          \* os.environ: [set, KAGGLE_USERNAME, KAGGLE_KEY]
    api,              \* self._api: [loaded, username, key]
    authCall,          \* the last authenticate call: [credentials, library, outcome, message, api_calls]
    \* ---- KaggleDataSource.search (src/benford/external_data.py:88-99, 145-163)
    listing,          \* what api.dataset_list returns: a sequence of datasets
    searchCall,        \* what search() did: [outcome, results]
    \* ---- how the analysis handlers report a failure (src/app.py:498-532, 810-827)
    failCall,          \* the last analysis: [handler, raised, carried, branch, flash, logged]
    \* ---- a RedisRateLimiter and the store it talks to (src/app.py:167-198)
    redis_installed,  \* `import redis` succeeds
    redis_up,         \* the Redis server answers
    fallback,         \* self._fallback: "unbuilt" before __init__, then None or "InMemoryRateLimiter"
    builtCall,         \* the last call on the limiter: [op, key, up, outcome]
    \* ---- maybe_run_cleanup called on its own (src/app.py:258-279)
    cleanupCall,       \* the last call: [seq, now, swept, failed]
    \* ---- the report written for a p-value (src/benford/analyzer.py:81-86)
    reportLine,        \* the text after "Conclusion: " in the report, "" before it is written
    \* ---- what get_csrf_token returned (src/app.py:297-303)
    tokenCall,         \* the last call: [seq, before, returned]
    \* ---- stored credentials and their expiry (src/app.py:358-379)
    credOrigin,       \* who wrote session['kaggle']: [by, creds, at]
    credCall,          \* the last get_kaggle_credentials: [seq, outcome, value, decrypted]
    \* ---- request threads inside maybe_run_cleanup (src/app.py:258-279)
    cleanup_pc,       \* per thread: "idle", "sweeping" (lines 265-277), "stamping" (line 279)
    cleanup_now,      \* per thread: the `now` it read at line 261
    sweep_log,         \* the `now` of every sweep that was run, in order
    \* ---- KaggleDataSource.download (src/benford/external_data.py:175-191)
    delivery,         \* what the provider sends: [zipped, members]
    parent_dir,       \* output_path.parent: path below it -> who wrote the file
    dlArgs,           \* the call: [ref, file_name]
    dlCall,            \* what download() did: [outcome, message, path]
    \* ---- kaggle_source shared by the sessions (src/app.py:210-211)
    sess_pc,          \* session -> where its request stands
    sharedCall,        \* the last remote call: [session, op, username, key]
    \* ---- threads in kaggle_cache_get / kaggle_cache_set (src/app.py:407-418)
    cache_pc,         \* thread -> where it stands in kaggle_cache_get
    cache_entry,      \* thread -> the entry its _KAGGLE_CACHE.get(key) returned
    cacheCall         \* the last step that ended: [thread, op, returned, removed, at]

limiterVars == <<max_requests, window_seconds, store, lock, clock, pc, tkey,
                 tnow, lastCheck, admitted>>

csrfVars == <<session_csrf, csrfCall>>

pathVars == <<links, examplePresent, filename, pathCall>>

vaultVars == <<vaultToken, vaultOrigin, decryptCall>>

interpVars == <<interpArgs, interpCall>>

loadVars == <<csvFile, column, loadCall>>

sweepVars == <<dirs, roots, sweepCall>>

reqVars == <<retention_age, cleanup_interval, last_cleanup_at, kaggle_store,
             kaggle_cache, response>>

redisVars == <<redis_zsets, redis_expire_at, redisCheck>>

runVars == <<runArgs, runCall>>

catalogVars == <<remote_times, catalogCall>>

writeVars == <<inflight>>

refVars == <<refArg, refCall>>

authVars == <<environ, api, authCall>>

searchVars == <<listing, searchCall>>

failVars == <<failCall>>

buildVars == <<redis_installed, redis_up, fallback, builtCall>>

cleanupVars == <<cleanupCall>>

verdictVars == <<reportLine>>

tokenVars == <<tokenCall>>

credVars == <<credOrigin, credCall>>

raceVars == <<cleanup_pc, cleanup_now, sweep_log>>

dlVars == <<delivery, parent_dir, dlArgs, dlCall>>

shareVars == <<sess_pc, sharedCall>>

cacheVars == <<cache_pc, cache_entry, cacheCall>>

vars == <<limiterVars, csrfVars, pathVars, vaultVars, interpVars, loadVars, sweepVars, reqVars, redisVars, runVars, catalogVars, writeVars, refVars, authVars, searchVars, failVars, buildVars, cleanupVars, verdictVars, tokenVars, credVars, raceVars, dlVars, shareVars, cacheVars, cacheVars>>

(***************************************************************************)
(* InMemoryRateLimiter                                                     *)
(***************************************************************************)
\* no check() has returned yet
NoCheck == [key |-> None, now |-> 0, ok |-> FALSE]

\* a mutation of Prune: an entry exactly window_seconds old is discarded
PruneExclusive(entries, now, window) ==
    LET window_start == now - window
    IN  SelectSeq(entries, LAMBDA ts : ts > window_start)

\* entries[:] = [ts for ts in entries if ts >= window_start]
Prune(entries, now, window) ==
    LET window_start == now - window
    IN  SelectSeq(entries, LAMBDA ts : ts >= window_start)

\* the value check() returns, given the list it finds and its `now`
CheckAdmits(entries, now, window, maxreq) ==
    ~(Len(Prune(entries, now, window)) >= maxreq)

\* a mutation of CheckEntries: a denied check is recorded as well
CheckEntriesAlways(entries, now, window, maxreq) ==
    Append(Prune(entries, now, window), now)

\* the list check() leaves behind
CheckEntries(entries, now, window, maxreq) ==
    IF CheckAdmits(entries, now, window, maxreq)
    THEN Append(Prune(entries, now, window), now)
    ELSE Prune(entries, now, window)

\* InMemoryRateLimiter.__init__ with every configuration the bounds allow
LimiterInit ==
    /\ max_requests \in 1..MaxMaxRequests
    /\ window_seconds \in 1..MaxWindow
    /\ store = [k \in Keys |-> <<>>]
    /\ lock = None
    /\ clock = 0
    /\ pc = [t \in Threads |-> "idle"]
    /\ tkey = [t \in Threads |-> None]
    /\ tnow = [t \in Threads |-> 0]
    /\ lastCheck = NoCheck
    /\ admitted = [k \in Keys |-> <<>>]

\* the component is not exercised
LimiterIdle ==
    /\ max_requests = 1
    /\ window_seconds = 1
    /\ store = [k \in Keys |-> <<>>]
    /\ lock = None
    /\ clock = 0
    /\ pc = [t \in Threads |-> "idle"]
    /\ tkey = [t \in Threads |-> None]
    /\ tnow = [t \in Threads |-> 0]
    /\ lastCheck = NoCheck
    /\ admitted = [k \in Keys |-> <<>>]

\* time passes, up to the bound of the specification
Tick(limit) ==
    /\ clock < limit
    /\ clock' = clock + 1
    /\ UNCHANGED <<max_requests, window_seconds, store, lock, pc, tkey, tnow,
                   lastCheck, admitted>>
    /\ UNCHANGED <<csrfVars, pathVars, vaultVars, interpVars, loadVars, sweepVars, reqVars, redisVars, runVars, catalogVars, writeVars, refVars, authVars, searchVars, failVars, buildVars, cleanupVars, verdictVars, tokenVars, credVars, raceVars, dlVars, shareVars, cacheVars>>

\* check(key), line 152: now = time.monotonic(), read before the lock is taken
CheckReadNow(t, k) ==
    /\ pc[t] = "idle"
    /\ pc' = [pc EXCEPT ![t] = "locking"]
    /\ tkey' = [tkey EXCEPT ![t] = k]
    /\ tnow' = [tnow EXCEPT ![t] = clock]
    /\ UNCHANGED <<max_requests, window_seconds, store, lock, clock, lastCheck,
                   admitted>>
    /\ UNCHANGED <<csrfVars, pathVars, vaultVars, interpVars, loadVars, sweepVars, reqVars, redisVars, runVars, catalogVars, writeVars, refVars, authVars, searchVars, failVars, buildVars, cleanupVars, verdictVars, tokenVars, credVars, raceVars, dlVars, shareVars, cacheVars>>

\* check(key), lines 154-160: the body of `with self.lock`.  The lock is
\* free when the thread enters and free again when it leaves, and nothing
\* else touches the store, so the body is one step.
CheckLocked(t) ==
    /\ pc[t] = "locking"
    /\ lock = None
    /\ LET k == tkey[t]
           ok == CheckAdmits(store[k], tnow[t], window_seconds, max_requests)
       IN  /\ store' = [store EXCEPT
                  ![k] = CheckEntries(@, tnow[t], window_seconds, max_requests)]
           /\ lastCheck' = [key |-> k, now |-> tnow[t], ok |-> ok]
           /\ admitted' = IF ok THEN [admitted EXCEPT ![k] = Append(@, tnow[t])]
                          ELSE admitted
    /\ pc' = [pc EXCEPT ![t] = "idle"]
    /\ UNCHANGED <<max_requests, window_seconds, lock, clock, tkey, tnow>>
    /\ UNCHANGED <<csrfVars, pathVars, vaultVars, interpVars, loadVars, sweepVars, reqVars, redisVars, runVars, catalogVars, writeVars, refVars, authVars, searchVars, failVars, buildVars, cleanupVars, verdictVars, tokenVars, credVars, raceVars, dlVars, shareVars, cacheVars>>

\* check(key) run by a single thread with nothing in between
Check(k) ==
    /\ \A t \in Threads : pc[t] = "idle"
    /\ lock = None
    /\ LET ok == CheckAdmits(store[k], clock, window_seconds, max_requests)
       IN  /\ store' = [store EXCEPT
                  ![k] = CheckEntries(@, clock, window_seconds, max_requests)]
           /\ lastCheck' = [key |-> k, now |-> clock, ok |-> ok]
           /\ admitted' = IF ok THEN [admitted EXCEPT ![k] = Append(@, clock)]
                          ELSE admitted
    /\ UNCHANGED <<max_requests, window_seconds, lock, clock, pc, tkey, tnow>>
    /\ UNCHANGED <<csrfVars, pathVars, vaultVars, interpVars, loadVars, sweepVars, reqVars, redisVars, runVars, catalogVars, writeVars, refVars, authVars, searchVars, failVars, buildVars, cleanupVars, verdictVars, tokenVars, credVars, raceVars, dlVars, shareVars, cacheVars>>

\* a mutation of ClearStore: the list of one identifier survives
ClearStoreButOne(entries) ==
    [k \in DOMAIN entries |-> IF k = ConcKey THEN entries[k] ELSE <<>>]

\* self.store.clear(), line 164: no identifier has a list any more (a missing
\* list reads as the empty one, line 155)
ClearStore(entries) ==
    [k \in DOMAIN entries |-> <<>>]

\* reset(), lines 162-164
Reset ==
    /\ lock = None
    /\ store' = ClearStore(store)
    /\ UNCHANGED <<max_requests, window_seconds, lock, clock, pc, tkey, tnow,
                   lastCheck, admitted>>
    /\ UNCHANGED <<csrfVars, pathVars, vaultVars, interpVars, loadVars, sweepVars, reqVars, redisVars, runVars, catalogVars, writeVars, refVars, authVars, searchVars, failVars, buildVars, cleanupVars, verdictVars, tokenVars, credVars, raceVars, dlVars, shareVars, cacheVars>>

(***************************************************************************)
(* CSRF token: get_csrf_token and validate_csrf                            *)
(***************************************************************************)
\* A string is a sequence of characters; "e'" stands for a character
\* outside ASCII (such as U+00E9), which a form field may carry.
AsciiChars == {"a", "b"}
Chars == AsciiChars \cup {"e'"}

\* the strings of at most n characters over the alphabet A
StringsUpTo(A, n) == UNION {[1..m -> A] : m \in 0..n}

\* Python's None where a string is expected
NoneStr == <<"None">>

\* what secrets.token_urlsafe can return: non-empty URL-safe ASCII text
UrlSafeTokens == StringsUpTo(AsciiChars, MaxTokenLen) \ {<<>>}

\* what request.form.get('csrf_token') can return: None or any string
FormTokens == StringsUpTo(Chars, MaxTokenLen) \cup {NoneStr}

\* `not x` for a string or None
Falsy(x) == x = NoneStr \/ x = <<>>

\* every character of the string is ASCII
IsAscii(x) == \A i \in DOMAIN x : x[i] \in AsciiChars

\* secrets.compare_digest(a, b) on two str: equality in constant time, and
\* TypeError when either holds a non-ASCII character
CompareDigest(a, b) ==
    IF ~IsAscii(a) \/ ~IsAscii(b) THEN "TypeError"
    ELSE IF a = b THEN "True" ELSE "False"

\* validate_csrf(form_token) with session['csrf_token'] = expected
ValidateCsrfResult(expected, form_token) ==
    IF Falsy(expected) \/ Falsy(form_token) THEN "False"
    ELSE CompareDigest(expected, form_token)

\* no validate_csrf call has been made
NoCsrfCall == [form |-> NoneStr, expected |-> NoneStr, result |-> "unset"]

\* a new session: no token yet
CsrfInit ==
    /\ session_csrf = NoneStr
    /\ csrfCall = NoCsrfCall

CsrfIdle == CsrfInit

\* no get_csrf_token call has been made
NoTokenCall == [seq |-> 0, before |-> NoneStr, returned |-> NoneStr]

TokenInit ==
    /\ tokenCall = NoTokenCall

\* the component is not exercised
TokenIdle ==
    /\ tokenCall = NoTokenCall

\* a mutation of TokenAfterGet: every call issues a new token
TokenAlwaysFresh(token, fresh) == fresh

\* lines 299-303: the token get_csrf_token returns and leaves in the session,
\* `fresh` being what secrets.token_urlsafe(32) would return
TokenAfterGet(token, fresh) ==
    IF Falsy(token) THEN fresh ELSE token

\* get_csrf_token(), lines 297-303
GetCsrfToken ==
    /\ \E fresh \in UrlSafeTokens :
           /\ session_csrf' = TokenAfterGet(session_csrf, fresh)
           /\ tokenCall' = [seq |-> 1 - tokenCall.seq, before |-> session_csrf,
                            returned |-> TokenAfterGet(session_csrf, fresh)]
    /\ UNCHANGED csrfCall
    /\ UNCHANGED <<limiterVars, pathVars, vaultVars, interpVars, loadVars, sweepVars, reqVars, redisVars, runVars, catalogVars, writeVars, refVars, authVars, searchVars, failVars, buildVars, cleanupVars, verdictVars, credVars, raceVars, dlVars, shareVars, cacheVars>>

\* validate_csrf(form_token), lines 306-310
ValidateCsrf(form_token) ==
    /\ csrfCall' = [form |-> form_token, expected |-> session_csrf,
                    result |-> ValidateCsrfResult(session_csrf, form_token)]
    /\ UNCHANGED session_csrf
    /\ UNCHANGED <<limiterVars, pathVars, vaultVars, interpVars, loadVars, sweepVars, reqVars, redisVars, runVars, catalogVars, writeVars, refVars, authVars, searchVars, failVars, buildVars, cleanupVars, verdictVars, tokenVars, credVars, raceVars, dlVars, shareVars, cacheVars>>

\* the session ends and a new one begins (the cookie is dropped)
NewSession ==
    /\ session_csrf # NoneStr
    /\ session_csrf' = NoneStr
    /\ UNCHANGED csrfCall
    /\ UNCHANGED <<limiterVars, pathVars, vaultVars, interpVars, loadVars, sweepVars, reqVars, redisVars, runVars, catalogVars, writeVars, refVars, authVars, searchVars, failVars, buildVars, cleanupVars, verdictVars, tokenVars, credVars, raceVars, dlVars, shareVars, cacheVars>>

(***************************************************************************)
(* Secure names: werkzeug's secure_filename, Path.resolve and the two      *)
(* build_*_path functions                                                  *)
(***************************************************************************)
\* the characters of a raw filename: the separator, the dot, a letter, the
\* underscore and the backslash (not a separator on POSIX)
NameChars == {"/", ".", "a", "_", "\\"}
RawNames == StringsUpTo(NameChars, MaxNameLen)

\* a path is a sequence of segments; a directory of the deployment is a
\* one-element segment that no filename can spell
UPLOAD_ROOT == << <<"app">>, <<"uploads">> >>
EXAMPLES_ROOT == << <<"app">>, <<"data">>, <<"examples">> >>
Roots == {UPLOAD_ROOT, EXAMPLES_ROOT}
\* a file outside both roots
OutsidePath == << <<"etc">>, <<"passwd">> >>

\* the one name under each root that may be a symlink, and the one example
LinkName == <<"a">>
ExampleName == <<"a", ".", "a">>
\* where the symlink may point: nowhere (a regular file or nothing), outside
\* the roots, into the other root, or to a file of its own root
LinkTargets == {"nolink", "outside", "other", "inside"}

\* filename.replace(os.sep, " ")
ReplaceSep(str) == [i \in DOMAIN str |-> IF str[i] = "/" THEN " " ELSE str[i]]

\* "_".join(filename.split()); started: a word has been emitted, gap: white
\* space has been seen since
RECURSIVE JoinWords(_, _, _)
JoinWords(str, started, gap) ==
    IF str = <<>> THEN <<>>
    ELSE IF Head(str) = " " THEN JoinWords(Tail(str), started, started)
    ELSE (IF gap THEN <<"_">> ELSE <<>>) \o <<Head(str)>>
             \o JoinWords(Tail(str), TRUE, FALSE)

\* _filename_ascii_strip_re.sub("", ...): only [A-Za-z0-9_.-] is kept
AsciiStrip(str) == SelectSeq(str, LAMBDA c : c \in {"a", ".", "_"})

\* str.lstrip("._")
RECURSIVE LStrip(_)
LStrip(str) ==
    IF str # <<>> /\ Head(str) \in {".", "_"} THEN LStrip(Tail(str)) ELSE str

\* str.rstrip("._")
RECURSIVE RStrip(_)
RStrip(str) ==
    IF str # <<>> /\ str[Len(str)] \in {".", "_"}
    THEN RStrip(SubSeq(str, 1, Len(str) - 1)) ELSE str

\* werkzeug.utils.secure_filename(filename) on POSIX
secure_filename(raw) ==
    RStrip(LStrip(AsciiStrip(JoinWords(ReplaceSep(raw), FALSE, FALSE))))

\* str.split("/") of the part of str after position i, as path segments
RECURSIVE Segments(_)
Segments(str) ==
    IF str = <<>> THEN << <<>> >>
    ELSE IF Head(str) = "/" THEN << <<>> >> \o Segments(Tail(str))
    ELSE LET rest == Segments(Tail(str))
         IN  << <<Head(str)>> \o Head(rest) >> \o Tail(rest)

\* the lexical part of Path.resolve: "" and "." are dropped, ".." pops
RECURSIVE Normalize(_, _)
Normalize(base, segs) ==
    IF segs = <<>> THEN base
    ELSE IF Head(segs) \in {<<>>, <<".">>} THEN Normalize(base, Tail(segs))
    ELSE IF Head(segs) = <<".", ".">>
         THEN Normalize(IF base = <<>> THEN base
                        ELSE SubSeq(base, 1, Len(base) - 1), Tail(segs))
    ELSE Normalize(Append(base, Head(segs)), Tail(segs))

\* root / name: an absolute name replaces the root
JoinPath(root, name) ==
    IF name # <<>> /\ Head(name) = "/" THEN Normalize(<<>>, Segments(name))
    ELSE Normalize(root, Segments(name))

\* the other root
OtherRoot(root) == IF root = UPLOAD_ROOT THEN EXAMPLES_ROOT ELSE UPLOAD_ROOT

\* (root / name).resolve(): the path normalized and its symlink followed
Resolve(root, name) ==
    LET p == JoinPath(root, name)
    IN  IF \E r \in Roots : p = Append(r, LinkName) /\ links[r] # "nolink"
        THEN LET r == CHOOSE r \in Roots : p = Append(r, LinkName)
             IN  CASE links[r] = "outside" -> OutsidePath
                   [] links[r] = "other" -> Append(OtherRoot(r), ExampleName)
                   [] OTHER -> Append(r, ExampleName)
        ELSE p

\* candidate.parents
Parents(path) == {SubSeq(path, 1, n) : n \in 0..(Len(path) - 1)}

\* a mutation of EscapesRoot: nothing is rejected
EscapesRootNever(root, candidate) == FALSE

\* the condition under which build_*_path raises ValueError
EscapesRoot(root, candidate) ==
    root \notin Parents(candidate) /\ candidate # root

\* candidate.exists() for a resolved path: the roots exist, a symlink's
\* target exists, and the example exists when the file system says so
PathExists(candidate) ==
    \/ candidate \in Roots
    \/ candidate = OutsidePath
    \/ candidate = Append(EXAMPLES_ROOT, ExampleName) /\ examplePresent
    \/ \E r \in Roots : candidate = Append(r, LinkName) /\ links[r] # "nolink"

\* no build_*_path call has been made
NoPathCall == [fn |-> "none", raw |-> <<>>, outcome |-> "none", safe |-> <<>>,
               path |-> <<>>]

\* build_upload_path(filename), lines 337-350
BuildUploadPathResult(raw) ==
    LET safe_name == secure_filename(raw)
        candidate == Resolve(UPLOAD_ROOT, safe_name)
    IN  IF EscapesRoot(UPLOAD_ROOT, candidate)
        THEN [fn |-> "build_upload_path", raw |-> raw,
              outcome |-> "ValueError", safe |-> <<>>, path |-> <<>>]
        ELSE [fn |-> "build_upload_path", raw |-> raw,
              outcome |-> "returned", safe |-> safe_name, path |-> candidate]

\* build_example_path(filename), lines 428-435
BuildExamplePathResult(raw) ==
    LET safe_name == secure_filename(raw)
        candidate == Resolve(EXAMPLES_ROOT, safe_name)
    IN  IF EscapesRoot(EXAMPLES_ROOT, candidate)
        THEN [fn |-> "build_example_path", raw |-> raw,
              outcome |-> "ValueError", safe |-> <<>>, path |-> <<>>]
        ELSE IF ~PathExists(candidate)
        THEN [fn |-> "build_example_path", raw |-> raw,
              outcome |-> "FileNotFoundError", safe |-> <<>>, path |-> <<>>]
        ELSE [fn |-> "build_example_path", raw |-> raw,
              outcome |-> "returned", safe |-> safe_name, path |-> candidate]

\* any content of the two directories, any raw filename
PathInit ==
    /\ links \in [Roots -> LinkTargets]
    /\ examplePresent \in BOOLEAN
    /\ filename \in RawNames
    /\ pathCall = NoPathCall

PathIdle ==
    /\ links = [r \in Roots |-> "nolink"]
    /\ examplePresent = FALSE
    /\ filename = <<>>
    /\ pathCall = NoPathCall

\* a request calls build_upload_path(filename)
BuildUploadPath ==
    /\ pathCall = NoPathCall
    /\ pathCall' = BuildUploadPathResult(filename)
    /\ UNCHANGED <<links, examplePresent, filename>>
    /\ UNCHANGED <<limiterVars, csrfVars, vaultVars, interpVars, loadVars, sweepVars, reqVars, redisVars, runVars, catalogVars, writeVars, refVars, authVars, searchVars, failVars, buildVars, cleanupVars, verdictVars, tokenVars, credVars, raceVars, dlVars, shareVars, cacheVars>>

\* a request calls build_example_path(filename)
BuildExamplePath ==
    /\ pathCall = NoPathCall
    /\ pathCall' = BuildExamplePathResult(filename)
    /\ UNCHANGED <<links, examplePresent, filename>>
    /\ UNCHANGED <<limiterVars, csrfVars, vaultVars, interpVars, loadVars, sweepVars, reqVars, redisVars, runVars, catalogVars, writeVars, refVars, authVars, searchVars, failVars, buildVars, cleanupVars, verdictVars, tokenVars, credVars, raceVars, dlVars, shareVars, cacheVars>>

(***************************************************************************)
(* Credential vault: _get_fernet, encrypt_credentials, decrypt_credentials *)
(***************************************************************************)
\* process secrets (app.secret_key), user names and API keys
Secrets == {"secret-1", "secret-2"}
Usernames == {"user", "bob"}
ApiKeys == {"abcd1234ef", "k2345678"}

\* the credential pairs set_kaggle_credentials builds
Credentials == [username : Usernames, key : ApiKeys]

\* _get_fernet: the Fernet key is the SHA-256 digest of the secret
FernetKey(secret_key) == <<"sha256", secret_key>>

\* json.dumps(credentials).encode(): UTF-8 bytes spelling a JSON object
JsonDumps(credentials) ==
    [encoding |-> "utf-8", json |-> "object", members |-> credentials]

\* plaintexts that are not what encrypt_credentials writes: a JSON document
\* that is no object, text that is no JSON, bytes that are no UTF-8
JsonArrayBytes == [encoding |-> "utf-8", json |-> "array", members |-> <<>>]
TextBytes == [encoding |-> "utf-8", json |-> "invalid", members |-> <<>>]
BinaryBytes == [encoding |-> "binary", json |-> "invalid", members |-> <<>>]
ForgedPlaintexts == {JsonArrayBytes, TextBytes, BinaryBytes}

\* Fernet(key).encrypt(data): the data sealed under the key; `intact` is
\* false once the token text has been cut or altered
FernetEncrypt(key, data) == [key |-> key, data |-> data, intact |-> TRUE]

\* a string that never was a Fernet token
GarbageToken == [key |-> <<"none">>, data |-> TextBytes, intact |-> FALSE]

\* encrypt_credentials(secret_key, credentials), lines 48-50
EncryptCredentials(secret_key, credentials) ==
    FernetEncrypt(FernetKey(secret_key), JsonDumps(credentials))

\* Fernet(key).decrypt(token) succeeds: the signature verifies under the key
FernetVerifies(key, token) == token.intact /\ token.key = key

\* decrypt_credentials(secret_key, token), lines 53-64
DecryptCredentials(secret_key, token) ==
    IF ~FernetVerifies(FernetKey(secret_key), token)
    THEN [outcome |-> "ExternalDataAuthError",
          message |-> "Invalid or expired credentials.", value |-> None]
    ELSE IF token.data.encoding # "utf-8"
    THEN [outcome |-> "UnicodeDecodeError", message |-> "", value |-> None]
    ELSE IF token.data.json = "invalid"
    THEN [outcome |-> "ExternalDataAuthError",
          message |-> "Malformed credentials.", value |-> None]
    ELSE IF token.data.json # "object"
    THEN [outcome |-> "ExternalDataAuthError",
          message |-> "Invalid credential payload.", value |-> None]
    ELSE [outcome |-> "returned", message |-> "", value |-> token.data.members]

NoOrigin == [by |-> "none", secret |-> None, creds |-> None]
NoDecryptCall == [secret |-> None, origin |-> NoOrigin, outcome |-> "none",
                  message |-> "", value |-> None]

VaultInit ==
    /\ vaultToken = GarbageToken
    /\ vaultOrigin = [by |-> "garbage", secret |-> None, creds |-> None]
    /\ decryptCall = NoDecryptCall

VaultIdle ==
    /\ vaultToken = GarbageToken
    /\ vaultOrigin = NoOrigin
    /\ decryptCall = NoDecryptCall

\* encrypt_credentials is called
Encrypt(secret_key, credentials) ==
    /\ vaultToken' = EncryptCredentials(secret_key, credentials)
    /\ vaultOrigin' = [by |-> "encrypt", secret |-> secret_key,
                       creds |-> credentials]
    /\ UNCHANGED decryptCall
    /\ UNCHANGED <<limiterVars, csrfVars, pathVars, interpVars, loadVars, sweepVars, reqVars, redisVars, runVars, catalogVars, writeVars, refVars, authVars, searchVars, failVars, buildVars, cleanupVars, verdictVars, tokenVars, credVars, raceVars, dlVars, shareVars, cacheVars>>

\* the token is cut short or altered on its way back
Tamper ==
    /\ vaultOrigin.by = "encrypt"
    /\ vaultToken' = [vaultToken EXCEPT !.intact = FALSE]
    /\ vaultOrigin' = [vaultOrigin EXCEPT !.by = "tampered"]
    /\ UNCHANGED decryptCall
    /\ UNCHANGED <<limiterVars, csrfVars, pathVars, interpVars, loadVars, sweepVars, reqVars, redisVars, runVars, catalogVars, writeVars, refVars, authVars, searchVars, failVars, buildVars, cleanupVars, verdictVars, tokenVars, credVars, raceVars, dlVars, shareVars, cacheVars>>

\* someone who knows a secret seals a plaintext of their own
Forge(secret_key, data) ==
    /\ vaultToken' = FernetEncrypt(FernetKey(secret_key), data)
    /\ vaultOrigin' = [by |-> "forged", secret |-> secret_key, creds |-> None]
    /\ UNCHANGED decryptCall
    /\ UNCHANGED <<limiterVars, csrfVars, pathVars, interpVars, loadVars, sweepVars, reqVars, redisVars, runVars, catalogVars, writeVars, refVars, authVars, searchVars, failVars, buildVars, cleanupVars, verdictVars, tokenVars, credVars, raceVars, dlVars, shareVars, cacheVars>>

\* decrypt_credentials is called on the token at hand
Decrypt(secret_key) ==
    /\ decryptCall' = [secret |-> secret_key, origin |-> vaultOrigin]
                          @@ DecryptCredentials(secret_key, vaultToken)
    /\ UNCHANGED <<vaultToken, vaultOrigin>>
    /\ UNCHANGED <<limiterVars, csrfVars, pathVars, interpVars, loadVars, sweepVars, reqVars, redisVars, runVars, catalogVars, writeVars, refVars, authVars, searchVars, failVars, buildVars, cleanupVars, verdictVars, tokenVars, credVars, raceVars, dlVars, shareVars, cacheVars>>

(***************************************************************************)
(* interpret_results                                                       *)
(***************************************************************************)
\* an absent statistic (None); present ones are counted in units of 0.00001
NoStat == -1
\* the significance threshold 0.05, in units of 0.00001
Alpha == 5000

\* p-values and chi-squared statistics a caller passes
PValues == {NoStat, 0, 1000, 5000, 5001, 80000}
ChiValues == {NoStat, 250000, 2500004}
DatasetNames == {None, "", "Test Dataset", "Bad Data"}
Expectations == {None, "", "conform", "nonconform", "unknown"}

\* format spec .4f on a value in units of 0.00001: the nearest 0.0001
Format4f(x) == (x + 5) \div 10

\* line 18: dataset_name or "this dataset"
NameOrDefault(dataset_name) ==
    IF dataset_name = None \/ dataset_name = "" THEN "this dataset"
    ELSE dataset_name

\* a mutation of StatisticsAbsent: only both statistics missing count
StatisticsBothAbsent(p_value, chi_squared) ==
    p_value = NoStat /\ chi_squared = NoStat

\* line 19: p_value is None or chi_squared is None
StatisticsAbsent(p_value, chi_squared) ==
    p_value = NoStat \/ chi_squared = NoStat

\* a mutation of Alignment: a p-value of exactly 0.05 counts as conforming
AlignmentInclusive(p_value, expectation) ==
    IF expectation = None \/ expectation = "" THEN ""
    ELSE IF expectation = "conform" /\ p_value >= Alpha
    THEN "This matches the expected behavior for this dataset."
    ELSE IF expectation = "nonconform" /\ p_value < Alpha
    THEN "This deviation is expected for this dataset."
    ELSE "This result differs from the typical expectation - worth a closer look."

\* lines 28-35: the alignment remark
Alignment(p_value, expectation) ==
    IF expectation = None \/ expectation = "" THEN ""
    ELSE IF expectation = "conform" /\ p_value > Alpha
    THEN "This matches the expected behavior for this dataset."
    ELSE IF expectation = "nonconform" /\ p_value <= Alpha
    THEN "This deviation is expected for this dataset."
    ELSE "This result differs from the typical expectation - worth a closer look."

\* interpret_results(p_value, chi_squared, dataset_name, expectation)
InterpretResults(p_value, chi_squared, dataset_name, expectation) ==
    LET name == NameOrDefault(dataset_name) IN
    IF StatisticsAbsent(p_value, chi_squared)
    THEN [outcome |-> "returned",
          headline |-> <<"Could not interpret results for ", name>>,
          detail |-> [stats |-> <<>>,
                      text |-> "The analysis did not return a p-value or chi-squared statistic."],
          guidance |-> "Re-run the analysis or verify the dataset contains numeric data."]
    ELSE IF p_value = NoStat \/ chi_squared = NoStat
    THEN \* comparing or formatting None raises
         [outcome |-> "TypeError", headline |-> <<>>,
          detail |-> [stats |-> <<>>, text |-> ""], guidance |-> ""]
    ELSE [outcome |-> "returned",
          headline |-> <<name, " ",
                         IF p_value > Alpha THEN "likely follows Benford's Law"
                         ELSE "likely does not follow Benford's Law">>,
          detail |-> [stats |-> <<Format4f(p_value), Format4f(chi_squared)>>,
                      text |-> Alignment(p_value, expectation)],
          guidance |->
              IF p_value > Alpha
              THEN "No red flags detected. The first-digit distribution is close to the Benford curve."
              ELSE "Significant deviation detected. Investigate the data generation process or potential anomalies."]

NoInterpCall == [outcome |-> "none", headline |-> <<>>,
                 detail |-> [stats |-> <<>>, text |-> ""], guidance |-> ""]

InterpInit ==
    /\ interpArgs \in [p_value : PValues, chi_squared : ChiValues,
                       dataset_name : DatasetNames, expectation : Expectations]
    /\ interpCall = NoInterpCall

InterpIdle ==
    /\ interpArgs = [p_value |-> NoStat, chi_squared |-> NoStat,
                     dataset_name |-> None, expectation |-> None]
    /\ interpCall = NoInterpCall

\* interpret_results is called with the arguments at hand
Interpret ==
    /\ interpCall = NoInterpCall
    /\ interpCall' = InterpretResults(interpArgs.p_value, interpArgs.chi_squared,
                                      interpArgs.dataset_name, interpArgs.expectation)
    /\ UNCHANGED interpArgs
    /\ UNCHANGED <<limiterVars, csrfVars, pathVars, vaultVars, loadVars, sweepVars, reqVars, redisVars, runVars, catalogVars, writeVars, refVars, authVars, searchVars, failVars, buildVars, cleanupVars, verdictVars, tokenVars, credVars, raceVars, dlVars, shareVars, cacheVars>>

(***************************************************************************)
(* BenfordAnalyzer.load_data                                               *)
(***************************************************************************)
\* a column of a CSV file holds at most MaxRows cells
MaxRows == 2

\* the text of a cell: integers, a word, nothing
CellTexts == {"12", "0", "abc", ""}
\* the column names of the files, and the names a caller asks for
ColumnNames == {"value", "name"}
RequestedColumns == ColumnNames \cup {"amount"}

\* pd.to_numeric(..., errors='coerce') on one cell: a number, or NaN
ToNumeric(text) ==
    IF text = "12" THEN [nan |-> FALSE, number |-> 12]
    ELSE IF text = "0" THEN [nan |-> FALSE, number |-> 0]
    ELSE [nan |-> TRUE, number |-> 0]

\* a mutation of CoerceDropNa: NaN entries are kept
CoerceKeepNa(cells) ==
    [i \in DOMAIN cells |-> ToNumeric(cells[i]).number]

\* pd.to_numeric(df[column], errors='coerce').dropna(), line 45
CoerceDropNa(cells) ==
    LET numeric == [i \in DOMAIN cells |-> ToNumeric(cells[i])]
        kept == SelectSeq(numeric, LAMBDA v : ~v.nan)
    IN [i \in DOMAIN kept |-> kept[i].number]

\* tables of one or two columns with the same number of rows
Tables ==
    UNION {UNION {[names -> [1..rows -> CellTexts]] : rows \in 0..MaxRows} :
           names \in SUBSET ColumnNames \ {{}}}

\* nothing at the path; something pd.read_csv cannot parse (no columns,
\* undecodable bytes, a directory); a CSV table
AbsentFile == [exists |-> FALSE, parses |-> FALSE, columns |-> <<>>]
UnparseableFile == [exists |-> TRUE, parses |-> FALSE, columns |-> <<>>]
CsvFiles ==
    {AbsentFile, UnparseableFile}
        \cup {[exists |-> TRUE, parses |-> TRUE, columns |-> t] : t \in Tables}

\* load_data(), lines 40-48
LoadData(file, col) ==
    IF ~file.exists
    THEN [outcome |-> "FileNotFoundError", message |-> "File not found",
          series |-> <<>>]
    ELSE IF ~file.parses
    THEN [outcome |-> "ParserError", message |-> "", series |-> <<>>]
    ELSE IF col \notin DOMAIN file.columns
    THEN [outcome |-> "ValueError", message |-> "Column not found",
          series |-> <<>>]
    ELSE LET series == CoerceDropNa(file.columns[col]) IN
         IF series = <<>>
         THEN [outcome |-> "ValueError",
               message |-> "Column is not numeric or contains no numeric values",
               series |-> <<>>]
         ELSE [outcome |-> "returned", message |-> "", series |-> series]

NoLoadCall == [outcome |-> "none", message |-> "", series |-> <<>>]

LoadInit ==
    /\ csvFile \in CsvFiles
    /\ column \in RequestedColumns
    /\ loadCall = NoLoadCall

LoadIdle ==
    /\ csvFile = AbsentFile
    /\ column = "value"
    /\ loadCall = NoLoadCall

\* load_data is called on the file at hand
CallLoadData ==
    /\ loadCall = NoLoadCall
    /\ loadCall' = LoadData(csvFile, column)
    /\ UNCHANGED <<csvFile, column>>
    /\ UNCHANGED <<limiterVars, csrfVars, pathVars, vaultVars, interpVars, sweepVars, reqVars, redisVars, runVars, catalogVars, writeVars, refVars, authVars, searchVars, failVars, buildVars, cleanupVars, verdictVars, tokenVars, credVars, raceVars, dlVars, shareVars, cacheVars>>

(***************************************************************************)
(* The managed folders and cleanup_stale_files                             *)
(***************************************************************************)
\* files found in a folder at the start carry a modification time in 0..MaxMtime
MaxMtime == 2
\* cleanup_stale_files is called with older_than in 1..MaxRetention
MaxRetention == 2

\* UPLOAD_FOLDER, STATIC_IMAGES_FOLDER, STATIC_REPORTS_FOLDER
Folders == {"uploads", "images", "reports"}

\* a name is a stem and the timestamp the program put into it (0: none)
StartNames == {[stem |-> "old.csv", stamp |-> 0], [stem |-> "data.csv", stamp |-> 0]}

\* what a direct child of a folder can be
Kinds == {"file", "symlink", "dir"}
\* a regular file holds data; `data` says what a read of it finds
StartEntries ==
    {e \in [kind : Kinds, mtime : 0..MaxMtime, data : {"numeric", "none"}] :
        (e.kind = "file") <=> (e.data = "numeric")}

\* the contents a folder can start with
StartContents == UNION {[names -> StartEntries] : names \in SUBSET StartNames}

EmptyFolder == <<>>

\* a mutation of IsStale: the comparison is the wrong way round
IsStaleReversed(entry, now, older_than) == entry.mtime - now > older_than

\* line 251: now - mtime > older_than
IsStale(entry, now, older_than) == now - entry.mtime > older_than

\* a mutation of StaleFiles: the kind of a child is not looked at
StaleChildren(content, now, older_than) ==
    {n \in DOMAIN content : IsStale(content[n], now, older_than)}

\* lines 246-252: the children cleanup_stale_files tries to unlink
StaleFiles(content, now, older_than) ==
    {n \in DOMAIN content :
        /\ content[n].kind = "file"
        /\ IsStale(content[n], now, older_than)}

\* lines 246-255: the folder after the loop, `failing` being the children
\* whose unlink raises (the exception is logged and the loop goes on)
SweepFolder(content, now, older_than, failing) ==
    LET removed == StaleFiles(content, now, older_than) \ failing IN
    [n \in DOMAIN content \ removed |-> content[n]]

NoSweepCall == [root |-> None, older_than |-> 0, now |-> 0, removed |-> {},
                failed |-> {}]

SweepInit ==
    /\ dirs \in [Folders -> StartContents]
    /\ dirs["images"] = EmptyFolder
    /\ dirs["reports"] = EmptyFolder
    /\ roots \in {Folders, Folders \ {"reports"}}
    /\ sweepCall = NoSweepCall

SweepIdle ==
    /\ dirs = [f \in Folders |-> EmptyFolder]
    /\ roots = Folders
    /\ sweepCall = NoSweepCall

\* cleanup_stale_files(root, older_than), lines 240-255
CleanupStaleFiles(root, older_than, failing) ==
    /\ IF root \in roots
       THEN /\ failing \subseteq StaleFiles(dirs[root], clock, older_than)
            /\ dirs' = [dirs EXCEPT ![root] =
                           SweepFolder(dirs[root], clock, older_than, failing)]
       ELSE /\ failing = {}
            /\ UNCHANGED dirs
    /\ sweepCall' = [root |-> root, older_than |-> older_than, now |-> clock,
                     removed |-> IF root \in roots
                                 THEN DOMAIN dirs[root] \ DOMAIN dirs'[root]
                                 ELSE {},
                     failed |-> failing]
    /\ UNCHANGED roots
    /\ UNCHANGED <<limiterVars, csrfVars, pathVars, vaultVars, interpVars, loadVars, reqVars, redisVars, runVars, catalogVars, writeVars, refVars, authVars, searchVars, failVars, buildVars, cleanupVars, verdictVars, tokenVars, credVars, raceVars, dlVars, shareVars, cacheVars>>

(***************************************************************************)
(* Requests: _before_request and the POST handlers                         *)
(***************************************************************************)
\* the clock of the request specification runs over 0..MaxReqTime
MaxReqTime == 1
\* CLEANUP_INTERVAL is configured in 1..MaxInterval
MaxInterval == 2

\* a time that is not set (None)
NoTime == -1
\* the modification time of a file left by an earlier run of the program
OldMtime == -2

\* KAGGLE_CALL_LIMIT
KAGGLE_CALL_LIMIT == 20
\* KAGGLE_CACHE_TTL, KAGGLE_CALL_WINDOW and the lifetime of stored
\* credentials, in clock ticks of 15 minutes
KAGGLE_CACHE_TTL == 1
KAGGLE_CALL_WINDOW == 4
CREDENTIAL_LIFETIME == 4

\* app.secret_key
SecretKey == "secret-1"
\* request.remote_addr of the clients
ReqClients == {"10.0.0.1"}
\* the token get_csrf_token issues, and what forms carry as csrf_token
IssuedTokens == {<<"a">>}
ReqFormTokens == {NoneStr, <<"a">>, <<"b">>}

\* what goes wrong while BenfordAnalyzer.run writes its outputs
Faults == {"none", "plot", "report"}

\* generate_unique_filename and the upload names: a stem and a timestamp
\* of one-second resolution
StampedName(stem, now) == [stem |-> stem, stamp |-> now]

\* file.save(path), plt.savefig(path), open(path, 'w'): the folder afterwards
WriteFile(content, name, data, now) ==
    [n \in DOMAIN content \cup {name} |->
        IF n = name THEN [kind |-> "file", mtime |-> now, data |-> data]
        ELSE content[n]]

\* what pd.read_csv finds in a stored file
CsvOf(data) ==
    IF data = "numeric"
    THEN [exists |-> TRUE, parses |-> TRUE,
          columns |-> [c \in {"value"} |-> <<"12", "12">>]]
    ELSE IF data = "text"
    THEN [exists |-> TRUE, parses |-> TRUE,
          columns |-> [c \in {"value"} |-> <<"abc">>]]
    ELSE UnparseableFile

\* a mutation of CleanupDue: a call exactly one interval after the last sweep
\* is still skipped
CleanupDueLater(last_run, now, interval) ==
    ~(last_run # NoTime /\ now - last_run <= interval)

\* line 262: the sweep is due
CleanupDue(last_run, now, interval) ==
    ~(last_run # NoTime /\ now - last_run < interval)

\* maybe_run_cleanup(), lines 258-279: the folders afterwards
MaybeRunCleanup(d, existing, last_run, now, interval, retention, failing) ==
    IF CleanupDue(last_run, now, interval)
    THEN [f \in Folders |->
             IF f \in existing
             THEN SweepFolder(d[f], now, retention,
                              failing \cap StaleFiles(d[f], now, retention))
             ELSE d[f]]
    ELSE d

\* BenfordAnalyzer.run() with plot and report paths, analyzer.py:50-86:
\* load, fit, write the plot, write the report
RunAnalysis(d, file, col, plot_stem, report_stem, now, fault) ==
    LET load == LoadData(file, col)
        plotted == [d EXCEPT !["images"] =
                       WriteFile(@, StampedName(plot_stem, now), "plot", now)]
        reported == [plotted EXCEPT !["reports"] =
                        WriteFile(@, StampedName(report_stem, now), "report", now)]
    IN  IF load.outcome # "returned" THEN [d |-> d, outcome |-> load.outcome]
        ELSE IF fault = "plot" THEN [d |-> d, outcome |-> "Exception"]
        ELSE IF fault = "report" THEN [d |-> plotted, outcome |-> "Exception"]
        ELSE [d |-> reported, outcome |-> "returned"]

\* the flash texts of the handlers
CsrfWarning == "Invalid or missing CSRF token. Please try again."
RateWarning == "Too many requests. Please wait a moment and try again."

\* what a handler leaves behind: folders, session['kaggle'], cache, response
Effect(d, ks, kc, status, flash) ==
    [d |-> d, ks |-> ks, kc |-> kc, status |-> status, flash |-> flash]

\* the flash of a failed analysis, by the exception run() raised
AnalysisFlash(outcome) ==
    IF outcome = "FileNotFoundError" THEN "File error"
    ELSE IF outcome = "ValueError" THEN "Column not found or not numeric"
    ELSE "An unexpected error occurred"

\* a fault only shows when the analysis gets as far as writing
UploadInputs ==
    {i \in [file : {"missing", "noname", "badtype", "notcsv", "numeric", "text"},
            column : {"", "value"}, fault : Faults] :
        i.fault # "none" => (i.file = "numeric" /\ i.column = "value")}

\* upload_file(), POST, lines 451-532
UploadHandler(d, ks, kc, csrf, input, now) ==
    IF csrf = "TypeError" THEN Effect(d, ks, kc, "error", "")
    ELSE IF csrf = "False" THEN Effect(d, ks, kc, "redirect", CsrfWarning)
    ELSE IF input.file = "missing" THEN Effect(d, ks, kc, "redirect", "No file part")
    ELSE IF input.file = "noname"
    THEN Effect(d, ks, kc, "redirect", "No selected file")
    ELSE IF input.file = "badtype"
    THEN Effect(d, ks, kc, "redirect", "Invalid file type. Please upload a CSV file.")
    ELSE IF input.file = "notcsv"
    THEN Effect(d, ks, kc, "redirect", "File does not appear to be a valid CSV file.")
    ELSE LET saved == [d EXCEPT !["uploads"] =
                          WriteFile(@, StampedName("upload", now), input.file, now)]
             run == RunAnalysis(saved, CsvOf(input.file), input.column,
                                "benford_plot", "benford_report", now, input.fault)
         IN  IF input.column = ""
             THEN Effect(saved, ks, kc, "redirect", "Column name is required")
             ELSE IF run.outcome = "returned"
             THEN Effect(run.d, ks, kc, "redirect", "")
             ELSE Effect(run.d, ks, kc, "redirect", AnalysisFlash(run.outcome))

PreviewInputs ==
    [file : {"missing", "noname", "badtype", "notcsv", "numeric", "text"}]

\* preview_data(), lines 537-586
PreviewHandler(d, ks, kc, csrf, input, now) ==
    IF csrf = "TypeError" THEN Effect(d, ks, kc, "error", "")
    ELSE IF csrf = "False" THEN Effect(d, ks, kc, "redirect", CsrfWarning)
    ELSE IF input.file = "missing" THEN Effect(d, ks, kc, "redirect", "No file part")
    ELSE IF input.file = "noname"
    THEN Effect(d, ks, kc, "redirect", "No selected file")
    ELSE IF input.file = "badtype"
    THEN Effect(d, ks, kc, "redirect", "Invalid file type. Please upload a CSV file.")
    ELSE IF input.file = "notcsv"
    THEN Effect(d, ks, kc, "redirect", "Error reading CSV file")
    ELSE Effect([d EXCEPT !["uploads"] =
                    WriteFile(@, StampedName("upload", now), input.file, now)],
                ks, kc, "rendered", "")

\* the filename field of /analyze: absent, escaping the root, naming nothing,
\* or naming a child of the upload folder
NoName == StampedName("", 0)
UploadNames ==
    {StampedName("old.csv", 0)}
        \cup {StampedName(stem, t) : stem \in {"upload", "kaggle"}, t \in 0..MaxReqTime}
AnalyzeInputs ==
    {i \in [target : {[kind |-> k, name |-> NoName] : k \in {"missing", "invalid"}}
                         \cup {[kind |-> "named", name |-> n] : n \in UploadNames},
            column : {"", "value"}, fault : Faults] :
        i.fault # "none" => (i.target.kind = "named" /\ i.column = "value")}

\* analyze_data(), lines 778-827
AnalyzeHandler(d, ks, kc, csrf, input, now) ==
    IF csrf = "TypeError" THEN Effect(d, ks, kc, "error", "")
    ELSE IF csrf = "False" THEN Effect(d, ks, kc, "redirect", CsrfWarning)
    ELSE IF input.target.kind = "missing" \/ input.column = ""
    THEN Effect(d, ks, kc, "redirect", "Missing filename or column")
    ELSE IF input.target.kind = "invalid"
    THEN Effect(d, ks, kc, "redirect", "Invalid filename provided.")
    ELSE IF input.target.name \notin DOMAIN d["uploads"]
    THEN Effect(d, ks, kc, "redirect", "Uploaded file not found. Please upload again.")
    ELSE LET entry == d["uploads"][input.target.name]
             run == RunAnalysis(d, CsvOf(entry.data), input.column,
                                "benford_plot", "benford_report", now, input.fault)
         IN  IF run.outcome = "returned"
             THEN Effect(run.d, ks, kc, "redirect", "")
             ELSE Effect(run.d, ks, kc, "redirect", AnalysisFlash(run.outcome))

ExampleInputs ==
    {i \in [example : {"unknown", "unavailable", "numeric", "text"},
            fault : Faults] :
        i.fault # "none" => i.example = "numeric"}

\* analyze_example(example_id), lines 615-655
ExampleHandler(d, ks, kc, csrf, input, now) ==
    IF csrf = "TypeError" THEN Effect(d, ks, kc, "error", "")
    ELSE IF csrf = "False" THEN Effect(d, ks, kc, "redirect", CsrfWarning)
    ELSE IF input.example = "unknown"
    THEN Effect(d, ks, kc, "redirect", "Example dataset not found.")
    ELSE IF input.example = "unavailable"
    THEN Effect(d, ks, kc, "redirect", "Could not load example")
    ELSE LET run == RunAnalysis(d, CsvOf(input.example), "value",
                                "example_plot", "example_report", now, input.fault)
         IN  IF run.outcome = "returned"
             THEN Effect(run.d, ks, kc, "redirect", "")
             ELSE Effect(run.d, ks, kc, "redirect", "Error analyzing example")

\* session['kaggle'] before anything touched it
NoKaggleStore ==
    [present |-> FALSE, has_token |-> FALSE, token |-> GarbageToken,
     expires_at |-> NoTime, calls |-> <<>>]

\* a mutation of PruneCalls: a call exactly one window old is kept
PruneCallsInclusive(calls, now) ==
    SelectSeq(calls, LAMBDA ts : ts >= now - KAGGLE_CALL_WINDOW)

\* lines 386-387 and 396-397: the recorded calls younger than the window
PruneCalls(calls, now) ==
    SelectSeq(calls, LAMBDA ts : ts > now - KAGGLE_CALL_WINDOW)

\* remaining_kaggle_calls(), lines 392-399: the store it leaves, the value
StoreAfterRemaining(ks, now) ==
    [ks EXCEPT !.present = TRUE, !.calls = PruneCalls(@, now)]

RemainingKaggleCalls(ks, now) ==
    LET left == KAGGLE_CALL_LIMIT - Len(PruneCalls(ks.calls, now))
    IN  IF left > 0 THEN left ELSE 0

\* record_kaggle_call(), lines 382-389
RecordKaggleCall(ks, now) ==
    [ks EXCEPT !.present = TRUE, !.calls = Append(PruneCalls(@, now), now)]

\* set_kaggle_credentials(username, key), lines 358-362
SetKaggleCredentials(ks, creds, now) ==
    [ks EXCEPT !.present = TRUE, !.has_token = TRUE,
               !.token = EncryptCredentials(SecretKey, creds),
               !.expires_at = now + CREDENTIAL_LIFETIME]

\* get_kaggle_credentials(), lines 365-379: whether it returns credentials
HasKaggleCredentials(ks, now) ==
    /\ ks.has_token
    /\ ks.expires_at # NoTime
    /\ ~(ks.expires_at < now)
    /\ DecryptCredentials(SecretKey, ks.token).outcome = "returned"

\* query.lower(), line 686
LowerQuery(query) == IF query = "Benford" THEN "benford" ELSE query

\* kaggle_cache_get(key), lines 407-414: the cache it leaves, the value
KaggleCacheGet(kc, key, now) ==
    IF key \notin DOMAIN kc THEN [kc |-> kc, value |-> "none"]
    ELSE IF now > kc[key].expires_at
    THEN [kc |-> [k \in DOMAIN kc \ {key} |-> kc[k]], value |-> "none"]
    ELSE [kc |-> kc, value |-> kc[key].value]

\* kaggle_cache_set(key, value), lines 417-418
KaggleCacheSet(kc, key, value, now) ==
    [k \in DOMAIN kc \cup {key} |->
        IF k = key THEN [value |-> value, expires_at |-> now + KAGGLE_CACHE_TTL]
        ELSE kc[k]]

\* the credentials a search form carries
FormCredentials == [username |-> "user", key |-> "abcd1234ef"]

KaggleInputs ==
    [query : {"Benford", "benford"}, creds : {"none", "given"},
     remote : {"results", "empty", "autherror", "error"}]

\* kaggle(), POST, lines 659-710
KaggleHandler(d, ks, kc, csrf, input, now) ==
    LET counted == StoreAfterRemaining(ks, now)
        stored == IF input.creds = "given"
                  THEN SetKaggleCredentials(counted, FormCredentials, now)
                  ELSE counted
        got == KaggleCacheGet(kc, LowerQuery(input.query), now)
    IN  IF csrf = "TypeError" THEN Effect(d, counted, kc, "error", "")
        ELSE IF csrf = "False" THEN Effect(d, counted, kc, "redirect", CsrfWarning)
        ELSE IF ~HasKaggleCredentials(stored, now)
        THEN Effect(d, stored, kc, "redirect",
                    "Please provide Kaggle username and API key to search.")
        ELSE IF RemainingKaggleCalls(stored, now) <= 0
        THEN Effect(d, stored, kc, "rendered",
                    "Kaggle API call limit reached for this session.")
        ELSE IF got.value = "results"
        THEN Effect(d, RecordKaggleCall(stored, now), got.kc, "rendered", "")
        ELSE IF input.remote \in {"autherror", "error"}
        THEN Effect(d, stored, got.kc, "rendered", "Kaggle request failed")
        ELSE Effect(d, RecordKaggleCall(stored, now),
                    KaggleCacheSet(got.kc, LowerQuery(input.query), input.remote, now),
                    "rendered", "")

\* 50 * 1024 * 1024, line 741
MAX_DOWNLOAD_BYTES == 52428800

\* the size the provider declares for the file: totalBytes, 0 standing for
\* a size that is absent or zero
DeclaredSizes == {0, MAX_DOWNLOAD_BYTES, MAX_DOWNLOAD_BYTES + 1}

\* a mutation of ExceedsDownloadLimit: no size is over the limit
ExceedsDownloadLimitNever(size) == FALSE

\* line 741: file_entry.get('size', 0) and file_entry['size'] > 50 * 1024 * 1024
ExceedsDownloadLimit(size) == size # 0 /\ size > MAX_DOWNLOAD_BYTES

\* `remote` is what the provider does when it is asked; the declared size
\* only shows when the file is listed
KagglePreviewInputs ==
    {i \in [ref : {"bad", "ok"},
            remote : {"autherror", "error", "nofile", "unreadable",
                      "hugerows", "downloaded"},
            size : DeclaredSizes] :
        /\ i.remote \in {"autherror", "error", "nofile"} => i.size = 0
        /\ i.ref = "bad" => i.size = 0}

\* kaggle_preview(), lines 714-775
KagglePreviewHandler(d, ks, kc, csrf, input, now) ==
    LET opened == [ks EXCEPT !.present = TRUE]
        counted == StoreAfterRemaining(ks, now)
        target == StampedName("kaggle", now)
    IN  IF csrf = "TypeError" THEN Effect(d, ks, kc, "error", "")
        ELSE IF csrf = "False" THEN Effect(d, ks, kc, "redirect", CsrfWarning)
        ELSE IF input.ref = "bad"
        THEN Effect(d, ks, kc, "redirect", "Invalid dataset reference")
        ELSE IF ~HasKaggleCredentials(ks, now)
        THEN Effect(d, opened, kc, "redirect",
                    "Please provide Kaggle credentials before previewing datasets.")
        ELSE IF RemainingKaggleCalls(ks, now) <= 0
        THEN Effect(d, counted, kc, "redirect",
                    "Kaggle API call limit reached for this session.")
        ELSE IF input.remote \in {"autherror", "error"}
        THEN Effect(d, counted, kc, "redirect", "Kaggle request failed")
        ELSE IF input.remote = "nofile"
        THEN Effect(d, counted, kc, "redirect", "CSV file not found in dataset.")
        ELSE IF ExceedsDownloadLimit(input.size)
        THEN Effect(d, counted, kc, "redirect",
                    "CSV file exceeds the 50MB download limit.")
        ELSE IF input.remote = "unreadable"
        THEN Effect([d EXCEPT !["uploads"] = WriteFile(@, target, "none", now)],
                    counted, kc, "redirect", "Unexpected error")
        ELSE IF input.remote = "hugerows"
        THEN Effect([d EXCEPT !["uploads"] =
                        [n \in DOMAIN @ \ {target} |-> @[n]]],
                    counted, kc, "redirect",
                    "Dataset too large (over 500k rows) for inline preview.")
        ELSE Effect([d EXCEPT !["uploads"] = WriteFile(@, target, "numeric", now)],
                    RecordKaggleCall(counted, now), kc, "rendered", "")

NoResponse ==
    [seq |-> 0, method |-> "none", endpoint |-> "none", csrf |-> "unchecked",
     status |-> "none", flash |-> ""]

\* the file an earlier run left in the upload folder
OldNames == {StampedName("old.csv", 0)}

\* the application after start-up: the folders exist, uploads may hold a
\* file from an earlier run, the session is new
ReqInit ==
    /\ retention_age \in 1..MaxRetention
    /\ cleanup_interval \in 1..MaxInterval
    /\ last_cleanup_at = NoTime
    /\ kaggle_store = NoKaggleStore
    /\ kaggle_cache = <<>>
    /\ response = NoResponse
    /\ roots = Folders
    /\ dirs \in {[f \in Folders |-> EmptyFolder],
                 [f \in Folders |->
                     IF f = "uploads"
                     THEN [n \in OldNames |->
                              [kind |-> "file", mtime |-> OldMtime, data |-> "numeric"]]
                     ELSE EmptyFolder]}
    /\ sweepCall = NoSweepCall

ReqIdle ==
    /\ retention_age = 1
    /\ cleanup_interval = 1
    /\ last_cleanup_at = NoTime
    /\ kaggle_store = NoKaggleStore
    /\ kaggle_cache = <<>>
    /\ response = NoResponse

\* the files the sweep of _before_request would try to unlink now
DueStaleFiles ==
    IF CleanupDue(last_cleanup_at, clock, cleanup_interval)
    THEN UNION {StaleFiles(dirs[f], clock, retention_age) : f \in Folders \cap roots}
    ELSE {}

\* the folders after maybe_run_cleanup, line 284
Swept(failing) ==
    MaybeRunCleanup(dirs, roots, last_cleanup_at, clock, cleanup_interval,
                    retention_age, failing)

\* _before_request (lines 282-290) followed by the handler of a rate-limited
\* POST endpoint, `effect` being what the handler leaves when it runs
ServePost(endpoint, ip, form_token, failing, effect) ==
    LET due == CleanupDue(last_cleanup_at, clock, cleanup_interval)
        ok == CheckAdmits(store[ip], clock, window_seconds, max_requests)
        csrf == ValidateCsrfResult(session_csrf, form_token)
    IN  /\ failing \subseteq DueStaleFiles
        /\ last_cleanup_at' = IF due THEN clock ELSE last_cleanup_at
        /\ sweepCall' =
               IF due
               THEN [root |-> "reports", older_than |-> retention_age,
                     now |-> clock,
                     removed |-> DOMAIN dirs["reports"]
                                     \ DOMAIN Swept(failing)["reports"],
                     failed |-> failing \cap DOMAIN dirs["reports"]]
               ELSE sweepCall
        /\ store' = [store EXCEPT
               ![ip] = CheckEntries(@, clock, window_seconds, max_requests)]
        /\ lastCheck' = [key |-> ip, now |-> clock, ok |-> ok]
        /\ admitted' = IF ok THEN [admitted EXCEPT ![ip] = Append(@, clock)]
                       ELSE admitted
        /\ dirs' = IF ok THEN effect.d ELSE Swept(failing)
        /\ kaggle_store' = IF ok THEN effect.ks ELSE kaggle_store
        /\ kaggle_cache' = IF ok THEN effect.kc ELSE kaggle_cache
        /\ csrfCall' = IF ok
                       THEN [form |-> form_token, expected |-> session_csrf,
                             result |-> csrf]
                       ELSE csrfCall
        /\ response' =
               [seq |-> 1 - response.seq, method |-> "POST",
                endpoint |-> endpoint,
                csrf |-> IF ok THEN csrf ELSE "unchecked",
                status |-> IF ok THEN effect.status ELSE "redirect",
                flash |-> IF ok THEN effect.flash ELSE RateWarning]
        /\ UNCHANGED <<max_requests, window_seconds, lock, clock, pc, tkey, tnow>>
        /\ UNCHANGED <<session_csrf, roots, retention_age, cleanup_interval>>
        /\ UNCHANGED <<pathVars, vaultVars, interpVars, loadVars, redisVars, runVars, catalogVars, writeVars, refVars, authVars, searchVars, failVars, buildVars, cleanupVars, verdictVars, tokenVars, credVars, raceVars, dlVars, shareVars, cacheVars>>

\* GET /: _before_request, then the form is rendered with get_csrf_token()
GetIndex(failing) ==
    /\ failing \subseteq DueStaleFiles
    /\ last_cleanup_at' =
           IF CleanupDue(last_cleanup_at, clock, cleanup_interval) THEN clock
           ELSE last_cleanup_at
    /\ dirs' = Swept(failing)
    /\ \E fresh \in IssuedTokens :
           /\ session_csrf' = TokenAfterGet(session_csrf, fresh)
           /\ tokenCall' = [seq |-> 1 - tokenCall.seq, before |-> session_csrf,
                            returned |-> TokenAfterGet(session_csrf, fresh)]
    /\ response' = [seq |-> 1 - response.seq, method |-> "GET",
                    endpoint |-> "upload_file", csrf |-> "unchecked",
                    status |-> "rendered", flash |-> ""]
    /\ UNCHANGED <<csrfCall, roots, sweepCall, retention_age, cleanup_interval,
                   kaggle_store, kaggle_cache>>
    /\ UNCHANGED <<limiterVars, pathVars, vaultVars, interpVars, loadVars, redisVars, runVars, catalogVars, writeVars, refVars, authVars, searchVars, failVars, buildVars, cleanupVars, verdictVars, credVars, raceVars, dlVars, shareVars, cacheVars>>

\* POST /
PostUpload(ip, form_token, input, failing) ==
    ServePost("upload_file", ip, form_token, failing,
              UploadHandler(Swept(failing), kaggle_store, kaggle_cache,
                            ValidateCsrfResult(session_csrf, form_token),
                            input, clock))

\* POST /preview
PostPreview(ip, form_token, input, failing) ==
    ServePost("preview_data", ip, form_token, failing,
              PreviewHandler(Swept(failing), kaggle_store, kaggle_cache,
                             ValidateCsrfResult(session_csrf, form_token),
                             input, clock))

\* POST /analyze
PostAnalyze(ip, form_token, input, failing) ==
    ServePost("analyze_data", ip, form_token, failing,
              AnalyzeHandler(Swept(failing), kaggle_store, kaggle_cache,
                             ValidateCsrfResult(session_csrf, form_token),
                             input, clock))

\* POST /examples/analyze/<example_id>
PostAnalyzeExample(ip, form_token, input, failing) ==
    ServePost("analyze_example", ip, form_token, failing,
              ExampleHandler(Swept(failing), kaggle_store, kaggle_cache,
                             ValidateCsrfResult(session_csrf, form_token),
                             input, clock))

\* POST /kaggle
PostKaggle(ip, form_token, input, failing) ==
    ServePost("kaggle", ip, form_token, failing,
              KaggleHandler(Swept(failing), kaggle_store, kaggle_cache,
                            ValidateCsrfResult(session_csrf, form_token),
                            input, clock))

\* POST /kaggle/preview
PostKagglePreview(ip, form_token, input, failing) ==
    ServePost("kaggle_preview", ip, form_token, failing,
              KagglePreviewHandler(Swept(failing), kaggle_store, kaggle_cache,
                                   ValidateCsrfResult(session_csrf, form_token),
                                   input, clock))

(***************************************************************************)
(* The remote catalog: what kaggle() and kaggle_preview() ask the provider *)
(***************************************************************************)
MaxCatalogTime == 1
MaxCatalogRequests == 2

\* kaggle(), lines 684-694, once the CSRF check has passed: the
\* kaggle_source calls that reach the provider, in order, and whether each
\* returned.  authenticate() raises for bad credentials before anything is
\* asked; search() asks the provider whether it returns results, returns
\* none or raises.
KaggleRemoteOps(ks, kc, input, now) ==
    LET counted == StoreAfterRemaining(ks, now)
        stored == IF input.creds = "given"
                  THEN SetKaggleCredentials(counted, FormCredentials, now)
                  ELSE counted
        got == KaggleCacheGet(kc, LowerQuery(input.query), now)
    IN  IF ~HasKaggleCredentials(stored, now) THEN <<>>
        ELSE IF RemainingKaggleCalls(stored, now) <= 0 THEN <<>>
        ELSE IF got.value = "results" THEN <<>>
        ELSE IF input.remote = "autherror" THEN <<>>
        ELSE <<[op |-> "search", ok |-> input.remote # "error"]>>

\* whether kaggle() takes the branch `if cached:` (line 688)
KaggleCacheHit(ks, kc, input, now) ==
    LET counted == StoreAfterRemaining(ks, now)
        stored == IF input.creds = "given"
                  THEN SetKaggleCredentials(counted, FormCredentials, now)
                  ELSE counted
    IN  /\ HasKaggleCredentials(stored, now)
        /\ RemainingKaggleCalls(stored, now) > 0
        /\ KaggleCacheGet(kc, LowerQuery(input.query), now).value = "results"

\* kaggle_preview(), lines 733-748, once the CSRF check has passed: the
\* kaggle_source calls that reach the provider, in order, and whether each
\* returned
KagglePreviewRemoteOps(ks, input, now) ==
    IF input.ref = "bad" THEN <<>>
    ELSE IF ~HasKaggleCredentials(ks, now) THEN <<>>
    ELSE IF RemainingKaggleCalls(ks, now) <= 0 THEN <<>>
    ELSE IF input.remote = "autherror" THEN <<>>
    ELSE IF input.remote = "error" THEN <<[op |-> "metadata", ok |-> FALSE]>>
    ELSE IF input.remote = "nofile" \/ ExceedsDownloadLimit(input.size)
    THEN <<[op |-> "metadata", ok |-> TRUE]>>
    ELSE <<[op |-> "metadata", ok |-> TRUE], [op |-> "download", ok |-> TRUE]>>

\* no catalog request has been handled
NoCatalogCall ==
    [seq |-> 0, endpoint |-> "none", hit |-> FALSE, ops |-> <<>>, size |-> 0,
     remaining_before |-> 0, remaining_after |-> 0, flash |-> ""]

\* how long a session with a spent budget is watched: one tick past the
\* call window
MaxBudgetTime == 5

\* the searches behind a session whose budget is spent, or spent by its
\* next call
BudgetSearches == {KAGGLE_CALL_LIMIT - 1, KAGGLE_CALL_LIMIT}

\* the searches a session has behind it when it is first looked at: none,
\* or one short of the call limit
PriorSearches == {0, KAGGLE_CALL_LIMIT - 1}

\* a search with credentials to which the provider returns no dataset
PriorSearch == [query |-> "benford", creds |-> "given", remote |-> "empty"]

\* session['kaggle'] after n such searches made at time 0: the credentials
\* of the form are stored (line 676) and each search is recorded (line 694)
StoreAfterSearches(n) ==
    IF n = 0 THEN NoKaggleStore
    ELSE [SetKaggleCredentials(NoKaggleStore, FormCredentials, 0)
             EXCEPT !.calls = [i \in 1..n |-> 0]]

\* _KAGGLE_CACHE after n such searches made at time 0 (line 693)
CacheAfterSearches(n) ==
    IF n = 0 THEN <<>>
    ELSE KaggleCacheSet(<<>>, LowerQuery(PriorSearch.query), PriorSearch.remote, 0)

\* a session that has made n searches, each of which reached the provider
CatalogInit ==
    /\ \E n \in PriorSearches :
           /\ kaggle_store = StoreAfterSearches(n)
           /\ kaggle_cache = CacheAfterSearches(n)
           /\ remote_times = [i \in 1..n |-> [at |-> 0, ok |-> TRUE]]
    /\ catalogCall = NoCatalogCall

\* a session whose budget is spent, or spent by its next call
BudgetInit ==
    /\ \E n \in BudgetSearches :
           /\ kaggle_store = StoreAfterSearches(n)
           /\ kaggle_cache = CacheAfterSearches(n)
           /\ remote_times = [i \in 1..n |-> [at |-> 0, ok |-> TRUE]]
    /\ catalogCall = NoCatalogCall

\* the component is not exercised
CatalogIdle ==
    /\ remote_times = <<>>
    /\ catalogCall = NoCatalogCall

\* POST /kaggle of the session, admitted by _before_request and carrying the
\* session's CSRF token
AdmittedKaggle(input) ==
    LET effect == KaggleHandler(dirs, kaggle_store, kaggle_cache, "True",
                                input, clock)
        ops == KaggleRemoteOps(kaggle_store, kaggle_cache, input, clock)
    IN  /\ catalogCall.seq < MaxCatalogRequests
        /\ dirs' = effect.d
        /\ kaggle_store' = effect.ks
        /\ kaggle_cache' = effect.kc
        /\ remote_times' = remote_times \o [i \in DOMAIN ops |-> [at |-> clock, ok |-> ops[i].ok]]
        /\ catalogCall' =
               [seq |-> catalogCall.seq + 1, endpoint |-> "kaggle",
                hit |-> KaggleCacheHit(kaggle_store, kaggle_cache, input, clock),
                ops |-> ops, size |-> 0,
                remaining_before |-> RemainingKaggleCalls(kaggle_store, clock),
                remaining_after |-> RemainingKaggleCalls(effect.ks, clock),
                flash |-> effect.flash]
        /\ UNCHANGED <<roots, sweepCall, retention_age, cleanup_interval,
                       last_cleanup_at, response>>
        /\ UNCHANGED <<limiterVars, csrfVars, pathVars, vaultVars, interpVars, loadVars, redisVars, runVars, writeVars, refVars, authVars, searchVars, failVars, buildVars, cleanupVars, verdictVars, tokenVars, credVars, raceVars, dlVars, shareVars, cacheVars>>

\* POST /kaggle/preview of the session, admitted by _before_request and
\* carrying the session's CSRF token
AdmittedKagglePreview(input) ==
    LET effect == KagglePreviewHandler(dirs, kaggle_store, kaggle_cache, "True",
                                       input, clock)
        ops == KagglePreviewRemoteOps(kaggle_store, input, clock)
    IN  /\ catalogCall.seq < MaxCatalogRequests
        /\ dirs' = effect.d
        /\ kaggle_store' = effect.ks
        /\ kaggle_cache' = effect.kc
        /\ remote_times' = remote_times \o [i \in DOMAIN ops |-> [at |-> clock, ok |-> ops[i].ok]]
        /\ catalogCall' =
               [seq |-> catalogCall.seq + 1, endpoint |-> "kaggle_preview", hit |-> FALSE, ops |-> ops,
                size |-> input.size,
                remaining_before |-> RemainingKaggleCalls(kaggle_store, clock),
                remaining_after |-> RemainingKaggleCalls(effect.ks, clock),
                flash |-> effect.flash]
        /\ UNCHANGED <<roots, sweepCall, retention_age, cleanup_interval,
                       last_cleanup_at, response>>
        /\ UNCHANGED <<limiterVars, csrfVars, pathVars, vaultVars, interpVars, loadVars, redisVars, runVars, writeVars, refVars, authVars, searchVars, failVars, buildVars, cleanupVars, verdictVars, tokenVars, credVars, raceVars, dlVars, shareVars, cacheVars>>

(***************************************************************************)
(* RedisRateLimiter                                                        *)
(***************************************************************************)
\* int(time.time() * 1000) and int(self.window_seconds * 1000)
Millis(seconds) == seconds * 1000

\* f"rate:{key}"
KeyName(key) == <<"rate:", key>>

KeyNames == {KeyName(k) : k \in Keys}

\* str(now_ms), the member name given to zadd
MemberOf(now_ms) == <<"str", now_ms>>

\* a key whose time to live has run out is gone when it is next accessed
LiveZset(zset, expire_at, now_ms) ==
    IF expire_at # NoTime /\ now_ms >= expire_at THEN {} ELSE zset

\* ZREMRANGEBYSCORE key min max: the members with min <= score <= max go
ZRemRangeByScore(zset, min, max) ==
    {e \in zset : ~(min <= e.score /\ e.score <= max)}

\* ZCARD key
ZCard(zset) == Cardinality(zset)

\* ZADD key score member: a member already present only gets the new score
ZAdd(zset, member, score) ==
    {e \in zset : e.member # member} \cup {[member |-> member, score |-> score]}

\* the result of the pipeline's zcard: the count after the removal and
\* before the add
RedisCount(zset, expire_at, now_ms, window_ms) ==
    ZCard(ZRemRangeByScore(LiveZset(zset, expire_at, now_ms), 0, now_ms - window_ms))

\* return int(count) <= self.max_requests
RedisAdmits(count, maxreq) == count <= maxreq

\* the sorted set the pipeline leaves behind: the add is made whatever the
\* count was
RedisZset(zset, expire_at, now_ms, window_ms) ==
    ZAdd(ZRemRangeByScore(LiveZset(zset, expire_at, now_ms), 0, now_ms - window_ms),
         MemberOf(now_ms), now_ms)

\* no RedisRateLimiter.check has returned yet
NoRedisCheck == [key |-> None, now_ms |-> 0, count |-> 0, ok |-> FALSE]

\* an empty store
RedisInit ==
    /\ redis_zsets = [n \in KeyNames |-> {}]
    /\ redis_expire_at = [n \in KeyNames |-> NoTime]
    /\ redisCheck = NoRedisCheck

\* the component is not exercised
RedisIdle ==
    /\ redis_zsets = [n \in KeyNames |-> {}]
    /\ redis_expire_at = [n \in KeyNames |-> NoTime]
    /\ redisCheck = NoRedisCheck

\* The same call, check(k) at the time `clock`, is made on an
\* InMemoryRateLimiter and on a RedisRateLimiter built with the same
\* max_requests and window_seconds (the redis library is installed, so there
\* is no fallback).
CheckOnBoth(k) ==
    /\ \A t \in Threads : pc[t] = "idle"
    /\ lock = None
    /\ LET ok == CheckAdmits(store[k], clock, window_seconds, max_requests)
       IN  /\ store' = [store EXCEPT
                  ![k] = CheckEntries(@, clock, window_seconds, max_requests)]
           /\ lastCheck' = [key |-> k, now |-> clock, ok |-> ok]
           /\ admitted' = IF ok THEN [admitted EXCEPT ![k] = Append(@, clock)]
                          ELSE admitted
    /\ LET now_ms == Millis(clock)
           window_ms == Millis(window_seconds)
           key_name == KeyName(k)
           count == RedisCount(redis_zsets[key_name], redis_expire_at[key_name],
                               now_ms, window_ms)
       IN  /\ redis_zsets' = [redis_zsets EXCEPT
                  ![key_name] = RedisZset(@, redis_expire_at[key_name],
                                          now_ms, window_ms)]
           /\ redis_expire_at' = [redis_expire_at EXCEPT
                  ![key_name] = now_ms + Millis(window_seconds)]
           /\ redisCheck' = [key |-> k, now_ms |-> now_ms, count |-> count,
                             ok |-> RedisAdmits(count, max_requests)]
    /\ UNCHANGED <<max_requests, window_seconds, lock, clock, pc, tkey, tnow>>
    /\ UNCHANGED <<csrfVars, pathVars, vaultVars, interpVars, loadVars, sweepVars, reqVars, runVars, catalogVars, writeVars, refVars, authVars, searchVars, failVars, buildVars, cleanupVars, verdictVars, tokenVars, credVars, raceVars, dlVars, shareVars, cacheVars>>

(***************************************************************************)
(* BenfordAnalyzer.run                                                     *)
(***************************************************************************)
\* plot_path and report_path: None or a path
OutputPaths == {None, "out"}

\* a mutation of AnalyzerRun: a write that raises is passed over and the
\* results are returned all the same
AnalyzerRunLenient(file, col, plot_path, report_path, fault) ==
    LET load == LoadData(file, col)
    IN  IF load.outcome # "returned"
        THEN [outcome |-> load.outcome, plot_written |-> FALSE,
              report_written |-> FALSE, results_set |-> FALSE]
        ELSE [outcome |-> "returned",
              plot_written |-> plot_path # None /\ fault # "plot",
              report_written |-> report_path # None /\ fault # "report",
              results_set |-> TRUE]

\* run(), analyzer.py:50-62: load_data, fit, _save_plot, _save_report, one
\* after the other with no handler around any of them.  `fault` names the
\* write that raises when it is attempted.  self.results is None from
\* __init__ (line 30) until fit has returned (line 58).
AnalyzerRun(file, col, plot_path, report_path, fault) ==
    LET load == LoadData(file, col)
        plot_attempted == plot_path # None
        plot_raises == plot_attempted /\ fault = "plot"
        report_attempted == ~plot_raises /\ report_path # None
        report_raises == report_attempted /\ fault = "report"
    IN  IF load.outcome # "returned"
        THEN [outcome |-> load.outcome, plot_written |-> FALSE,
              report_written |-> FALSE, results_set |-> FALSE]
        ELSE [outcome |-> IF plot_raises \/ report_raises THEN "Exception"
                          ELSE "returned",
              plot_written |-> plot_attempted /\ ~plot_raises,
              report_written |-> report_attempted /\ ~report_raises,
              results_set |-> TRUE]

\* run() has not been called
NoRunCall ==
    [outcome |-> None, plot_written |-> FALSE, report_written |-> FALSE,
     results_set |-> FALSE]

\* an analyzer built for any paths, on any file and column
RunInit ==
    /\ runArgs \in [plot_path : OutputPaths, report_path : OutputPaths,
                    fault : Faults]
    /\ runCall = NoRunCall

\* the component is not exercised
RunIdle ==
    /\ runArgs = [plot_path |-> None, report_path |-> None, fault |-> "none"]
    /\ runCall = NoRunCall

\* analyzer.run()
CallRun ==
    /\ runCall = NoRunCall
    /\ runCall' = AnalyzerRun(csvFile, column, runArgs.plot_path,
                              runArgs.report_path, runArgs.fault)
    /\ UNCHANGED runArgs
    /\ UNCHANGED <<limiterVars, csrfVars, pathVars, vaultVars, interpVars, loadVars, sweepVars, reqVars, redisVars, catalogVars, writeVars, refVars, authVars, searchVars, failVars, buildVars, cleanupVars, verdictVars, tokenVars, credVars, raceVars, dlVars, shareVars, cacheVars>>

(***************************************************************************)
(* Generated file names and the writes that use them                       *)
(***************************************************************************)
\* the clock of this component counts half seconds
MaxWriteTime == 3

\* the file names clients and the provider supply (already secure)
SuppliedNames == {"a.csv", "b.csv"}

\* the operations that write a file
WriteKinds == {"upload", "download", "plot", "report"}

\* datetime.now().strftime('%Y%m%d_%H%M%S'): the time cut to whole seconds
Timestamp(now) == now \div 2

\* generate_unique_filename(base_name, extension), lines 331-334
GenerateUniqueFilename(base_name, extension, now) ==
    <<base_name, "_", Timestamp(now), ".", extension>>

\* lines 481-482 and 571-572: f"{timestamp}_{original_filename}"
UploadFilename(original_filename, now) ==
    <<Timestamp(now), "_", original_filename>>

\* The path an operation writes to.  A download is given
\* UPLOAD_ROOT/<timestamp>_<file> as output_path (lines 745-748), but
\* KaggleDataSource.download only uses output_path.parent: the provider's
\* library writes UPLOAD_ROOT/<file> (external_data.py:180-181).
WritePath(kind, name, now) ==
    IF kind = "upload" THEN <<"uploads", UploadFilename(name, now)>>
    ELSE IF kind = "download" THEN <<"uploads", <<name>>>>
    ELSE IF kind = "plot"
    THEN <<"images", GenerateUniqueFilename("benford_plot", "png", now)>>
    ELSE <<"reports", GenerateUniqueFilename("benford_report", "txt", now)>>

\* the thread is not writing
NoWrite == [kind |-> "none", path |-> <<>>]

WriteInit == inflight = [t \in Threads |-> NoWrite]

\* the component is not exercised
WriteIdle == inflight = [t \in Threads |-> NoWrite]

\* a request thread names its target and starts to write
BeginWrite(t, kind, name) ==
    /\ inflight[t] = NoWrite
    /\ inflight' = [inflight EXCEPT
           ![t] = [kind |-> kind, path |-> WritePath(kind, name, clock)]]
    /\ UNCHANGED <<limiterVars, csrfVars, pathVars, vaultVars, interpVars, loadVars, sweepVars, reqVars, redisVars, runVars, catalogVars, refVars, authVars, searchVars, failVars, buildVars, cleanupVars, verdictVars, tokenVars, credVars, raceVars, dlVars, shareVars, cacheVars>>

\* the write is complete
EndWrite(t) ==
    /\ inflight[t] # NoWrite
    /\ inflight' = [inflight EXCEPT ![t] = NoWrite]
    /\ UNCHANGED <<limiterVars, csrfVars, pathVars, vaultVars, interpVars, loadVars, sweepVars, reqVars, redisVars, runVars, catalogVars, refVars, authVars, searchVars, failVars, buildVars, cleanupVars, verdictVars, tokenVars, credVars, raceVars, dlVars, shareVars, cacheVars>>

(***************************************************************************)
(* validate_dataset_ref                                                    *)
(***************************************************************************)
MaxRefLen == 4

\* the characters of a reference: a letter, the three signs the pattern
\* names, the separator and a line feed
RefChars == {"a", "_", ".", "/", "\n"}

\* the references a caller may pass
Refs == StringsUpTo(RefChars, MaxRefLen)

\* [A-Za-z0-9_-] and [A-Za-z0-9_.-]
OwnerClass == {"a", "_", "-"}
DatasetClass == {"a", "_", "-", "."}

\* the whole of text is [A-Za-z0-9_-]+/[A-Za-z0-9_.-]+
IsOwnerSlashDataset(text) ==
    \E k \in DOMAIN text :
        /\ text[k] = "/"
        /\ 1 < k
        /\ k < Len(text)
        /\ \A i \in 1..(k - 1) : text[i] \in OwnerClass
        /\ \A i \in (k + 1)..Len(text) : text[i] \in DatasetClass

\* re.compile(r"^[A-Za-z0-9_-]+/[A-Za-z0-9_.-]+$").match(ref): `$` matches
\* at the end of the string and also just before a line feed that ends it
PatternMatch(ref) ==
    \/ IsOwnerSlashDataset(ref)
    \/ /\ Len(ref) > 0
       /\ ref[Len(ref)] = "\n"
       /\ IsOwnerSlashDataset(SubSeq(ref, 1, Len(ref) - 1))

\* validate_dataset_ref(ref), lines 74-79
ValidateDatasetRef(ref) ==
    IF ~PatternMatch(ref)
    THEN [outcome |-> "ExternalDataError", message |-> "Invalid dataset reference.",
          value |-> <<>>]
    ELSE [outcome |-> "returned", message |-> "", value |-> ref]

\* no call was made
NoRefCall == [outcome |-> None, message |-> "", value |-> <<>>]

RefInit ==
    /\ refArg \in Refs
    /\ refCall = NoRefCall

\* the component is not exercised
RefIdle ==
    /\ refArg = <<>>
    /\ refCall = NoRefCall

\* validate_dataset_ref(refArg)
CallValidateDatasetRef ==
    /\ refCall = NoRefCall
    /\ refCall' = ValidateDatasetRef(refArg)
    /\ UNCHANGED refArg
    /\ UNCHANGED <<limiterVars, csrfVars, pathVars, vaultVars, interpVars, loadVars, sweepVars, reqVars, redisVars, runVars, catalogVars, writeVars, authVars, searchVars, failVars, buildVars, cleanupVars, verdictVars, tokenVars, credVars, raceVars, dlVars, shareVars, cacheVars>>

(***************************************************************************)
(* KaggleDataSource.authenticate                                           *)
(***************************************************************************)
\* {3,} and {8,} of the two patterns
MinUsernameLen == 3
MinKeyLen == 8

\* text of n letters
Letters(n) == [i \in 1..n |-> "a"]

\* what credentials may hold under "username": nothing (NoneStr), an empty
\* text, blanks, too short, well formed, padded, with a sign outside the class
AuthUsernames ==
    {NoneStr, <<>>, <<" ", " ">>, Letters(2), Letters(3),
     <<" ">> \o Letters(2) \o <<"_", " ">>, Letters(2) \o <<"!">>}

\* what credentials may hold under "key"
AuthKeys ==
    {NoneStr, <<>>, Letters(7), Letters(8), <<" ">> \o Letters(8) \o <<" ">>,
     Letters(7) \o <<"!">>, Letters(7) \o <<"\\">>, Letters(7) \o <<"_">>}

AuthCredentials == [username : AuthUsernames, key : AuthKeys]

\* whether `from kaggle import KaggleApi` succeeds
Libraries == {"installed", "missing"}

\* credentials.get(name, ""): "" when the entry is missing
GetOrEmpty(value) == IF value = NoneStr THEN <<>> ELSE value

\* str.strip(): leading and trailing white space removed
Strip(text) ==
    LET inked == {i \in DOMAIN text : text[i] # " "}
    IN  IF inked = {} THEN <<>>
        ELSE LET first == CHOOSE i \in inked : \A j \in inked : i <= j
                 last == CHOOSE i \in inked : \A j \in inked : j <= i
             IN  SubSeq(text, first, last)

\* [A-Za-z0-9_-] of the username pattern; [A-Za-z0-9\\-] of the key pattern,
\* which in a raw string names the backslash and the hyphen
UsernameClass == {"a", "_", "-"}
KeyClass == {"a", "\\", "-"}

\* a mutation of UsernameShape: the length is not checked
UsernameShapeAnyLength(username) ==
    /\ Len(username) >= 1
    /\ \A i \in DOMAIN username : username[i] \in UsernameClass

\* re.match(r"^[A-Za-z0-9_-]{3,}$", username), line 135
UsernameShape(username) ==
    /\ Len(username) >= MinUsernameLen
    /\ \A i \in DOMAIN username : username[i] \in UsernameClass

\* re.match(r"^[A-Za-z0-9\\-]{8,}$", key), line 137
KeyShape(key) ==
    /\ Len(key) >= MinKeyLen
    /\ \A i \in DOMAIN key : key[i] \in KeyClass

\* the process environment and the cached client before any call
NoEnviron == [set |-> FALSE, KAGGLE_USERNAME |-> <<>>, KAGGLE_KEY |-> <<>>]
NoApi == [loaded |-> FALSE, username |-> <<>>, key |-> <<>>]

\* authenticate(credentials), lines 130-143, with _load_api, lines 115-123:
\* the outcome, the environment and the client left behind, and the number
\* of calls made into the provider's library
Authenticate(credentials, library, env, client) ==
    LET username == Strip(GetOrEmpty(credentials.username))
        key == Strip(GetOrEmpty(credentials.key))
        exported == [set |-> TRUE, KAGGLE_USERNAME |-> username, KAGGLE_KEY |-> key]
        refused(message) ==
            [outcome |-> "ExternalDataAuthError", message |-> message,
             environ |-> env, api |-> client, api_calls |-> 0]
    IN  IF username = <<>> \/ key = <<>>
        THEN refused("Username and API key are required.")
        ELSE IF ~UsernameShape(username)
        THEN refused("Invalid Kaggle username format.")
        ELSE IF ~KeyShape(key)
        THEN refused("Invalid Kaggle API key format.")
        ELSE IF library = "missing"
        THEN [outcome |-> "ExternalDataError",
              message |-> "Kaggle API library is not installed.",
              environ |-> exported, api |-> client, api_calls |-> 0]
        ELSE [outcome |-> "returned", message |-> "", environ |-> exported,
              api |-> [loaded |-> TRUE, username |-> username, key |-> key],
              api_calls |-> 1]

\* no call was made
NoAuthCall ==
    [credentials |-> [username |-> NoneStr, key |-> NoneStr],
     library |-> "installed", outcome |-> None, message |-> "", api_calls |-> 0]

\* KaggleDataSource.__init__, lines 111-113, in a fresh process
AuthInit ==
    /\ environ = NoEnviron
    /\ api = NoApi
    /\ authCall = NoAuthCall

\* the component is not exercised
AuthIdle ==
    /\ environ = NoEnviron
    /\ api = NoApi
    /\ authCall = NoAuthCall

\* kaggle_source.authenticate(credentials)
CallAuthenticate(credentials, library) ==
    LET done == Authenticate(credentials, library, environ, api)
    IN  /\ environ' = done.environ
        /\ api' = done.api
        /\ authCall' = [credentials |-> credentials, library |-> library,
                        outcome |-> done.outcome, message |-> done.message,
                        api_calls |-> done.api_calls]
        /\ UNCHANGED <<limiterVars, csrfVars, pathVars, vaultVars, interpVars, loadVars, sweepVars, reqVars, redisVars, runVars, catalogVars, writeVars, refVars, searchVars, failVars, buildVars, cleanupVars, verdictVars, tokenVars, credVars, raceVars, dlVars, shareVars, cacheVars>>

(***************************************************************************)
(* KaggleDataSource.search and suitability_score                           *)
(***************************************************************************)
MaxDatasets == 3

\* suitability_score, lines 89-90
PositiveWords ==
    <<<<"p", "o", "p", "u", "l", "a", "t", "i", "o", "n">>,
      <<"f", "i", "n", "a", "n", "c", "e">>,
      <<"f", "i", "n", "a", "n", "c", "i", "a", "l">>,
      <<"m", "e", "a", "s", "u", "r", "e", "m", "e", "n", "t">>,
      <<"m", "e", "a", "s", "u", "r", "e">>, <<"s", "a", "l", "e", "s">>,
      <<"r", "e", "v", "e", "n", "u", "e">>, <<"g", "d", "p">>,
      <<"i", "n", "c", "o", "m", "e">>,
      <<"e", "a", "r", "t", "h", "q", "u", "a", "k", "e">>,
      <<"r", "i", "v", "e", "r">>, <<"l", "e", "n", "g", "t", "h">>>>

NegativeWords ==
    <<<<"i", "m", "a", "g", "e">>, <<"t", "e", "x", "t">>, <<"n", "l", "p">>,
      <<"c", "l", "a", "s", "s", "i", "f", "i", "c", "a", "t", "i", "o", "n">>,
      <<"s", "e", "n", "t", "i", "m", "e", "n", "t">>,
      <<"r", "e", "v", "i", "e", "w">>>>

\* str.lower() on the capital letters that occur
LowerOf ==
    ("A" :> "a") @@ ("C" :> "c") @@ ("D" :> "d") @@ ("G" :> "g") @@
    ("I" :> "i") @@ ("M" :> "m") @@ ("P" :> "p") @@ ("S" :> "s") @@ ("T" :> "t") @@ ("V" :> "v")

Lower(text) ==
    [i \in DOMAIN text |->
        IF text[i] \in DOMAIN LowerOf THEN LowerOf[text[i]] ELSE text[i]]

\* `word in text`
Contains(text, word) ==
    \E k \in 0..(Len(text) - Len(word)) :
        \A i \in 1..Len(word) : text[k + i] = word[i]

\* str.endswith(suffix)
EndsWith(text, suffix) ==
    /\ Len(text) >= Len(suffix)
    /\ \A i \in 1..Len(suffix) : text[Len(text) - Len(suffix) + i] = suffix[i]

\* suitability_score(title, ref), lines 88-99
SuitabilityScore(title, ref) ==
    LET text == Lower(title \o <<" ">> \o ref)
    IN  2 * Cardinality({i \in DOMAIN PositiveWords : Contains(text, PositiveWords[i])})
          - 2 * Cardinality({i \in DOMAIN NegativeWords : Contains(text, NegativeWords[i])})

\* line 153: the files whose name.lower() ends with ".csv"
CsvFilesOf(files) ==
    SelectSeq(files, LAMBDA f : EndsWith(Lower(f), <<".", "c", "s", "v">>))

\* the datasets the provider may list: [owner_slug, dataset_slug, title, files]
Dataset(owner, slug, title, files) ==
    [owner_slug |-> owner, dataset_slug |-> slug, title |-> title, files |-> files]

ProviderDatasets ==
    {Dataset(<<"a">>, <<"a">>, <<"S", "a", "l", "e", "s">>, <<<<"a", ".", "c", "s", "v">>>>),
     Dataset(<<"a">>, <<"_">>, <<"G", "D", "P", " ", "i", "n", "c", "o", "m", "e">>,
             <<<<"a", ".", "t", "x", "t">>, <<"a", ".", "C", "S", "V">>>>),
     Dataset(<<"a">>, <<"a", "a">>, <<"M", "e", "a", "s", "u", "r", "e", "m", "e", "n", "t">>,
             <<<<"a", ".", "c", "s", "v">>>>),
     Dataset(<<"a">>, <<"a", "_">>, <<"I", "m", "a", "g", "e", "s">>,
             <<<<"a", ".", "c", "s", "v">>, <<"_", ".", "c", "s", "v">>>>),
     Dataset(<<"a">>, <<"_", "a">>, <<"r", "i", "v", "e", "r", "s">>,
             <<<<"a", ".", "t", "x", "t">>>>),
     Dataset(<<"_">>, <<"a">>, <<"D", "a", "t", "a">>, <<<<"a", ".", "c", "s", "v">>>>),
     Dataset(<<"_">>, <<"_">>, <<"T", "a", "x", "e", "s">>, <<>>),
     Dataset(<<"a", ".">>, <<"a">>, <<"S", "a", "l", "e", "s">>, <<<<"a", ".", "c", "s", "v">>>>)}

\* what the provider may return: up to MaxDatasets different datasets in any order
Listings ==
    {l \in UNION {[1..n -> ProviderDatasets] : n \in 0..MaxDatasets} :
        \A i, j \in DOMAIN l : i # j => l[i] # l[j]}

\* f"{ds.owner_slug}/{ds.dataset_slug}", line 150
RefOf(ds) == ds.owner_slug \o <<"/">> \o ds.dataset_slug

\* lines 156-162: the entry appended for a dataset
ResultOf(ds) ==
    [ref |-> RefOf(ds), title |-> ds.title, csv_files |-> CsvFilesOf(ds.files),
     score |-> SuitabilityScore(ds.title, RefOf(ds))]

\* lines 149-162: the entries collected, in the provider's order
RECURSIVE Collected(_)
Collected(datasets) ==
    IF datasets = <<>> THEN <<>>
    ELSE LET rest == Collected(Tail(datasets))
         IN  IF CsvFilesOf(Head(datasets).files) = <<>> THEN rest
             ELSE <<ResultOf(Head(datasets))>> \o rest

\* a mutation of InsertByScore: the entry goes before the entries of equal score
InsertByScoreBeforeTies(sorted, r) ==
    LET ahead == SelectSeq(sorted, LAMBDA x : x.score > r.score)
        behind == SelectSeq(sorted, LAMBDA x : ~(x.score > r.score))
    IN  ahead \o <<r>> \o behind

\* where a stable descending sort puts the next entry: behind every entry
\* whose score is not smaller
InsertByScore(sorted, r) ==
    LET ahead == SelectSeq(sorted, LAMBDA x : x.score >= r.score)
        behind == SelectSeq(sorted, LAMBDA x : ~(x.score >= r.score))
    IN  ahead \o <<r>> \o behind

\* sorted(results, key=lambda r: r["score"], reverse=True), line 163: the
\* sort is stable, and stays so with reverse=True
RECURSIVE SortedByScore(_)
SortedByScore(results) ==
    IF results = <<>> THEN <<>>
    ELSE InsertByScore(SortedByScore(SubSeq(results, 1, Len(results) - 1)),
                       results[Len(results)])

\* search(query), lines 145-163, given what the provider lists
Search(datasets) ==
    IF \E i \in DOMAIN datasets :
           ValidateDatasetRef(RefOf(datasets[i])).outcome # "returned"
    THEN [outcome |-> "ExternalDataError", results |-> <<>>]
    ELSE [outcome |-> "returned", results |-> SortedByScore(Collected(datasets))]

\* search() has not been called
NoSearchCall == [outcome |-> None, results |-> <<>>]

SearchInit ==
    /\ listing \in Listings
    /\ searchCall = NoSearchCall

\* the component is not exercised
SearchIdle ==
    /\ listing = <<>>
    /\ searchCall = NoSearchCall

\* kaggle_source.search(query)
CallSearch ==
    /\ searchCall = NoSearchCall
    /\ searchCall' = Search(listing)
    /\ UNCHANGED listing
    /\ UNCHANGED <<limiterVars, csrfVars, pathVars, vaultVars, interpVars, loadVars, sweepVars, reqVars, redisVars, runVars, catalogVars, writeVars, refVars, authVars, failVars, buildVars, cleanupVars, verdictVars, tokenVars, credVars, raceVars, dlVars, shareVars, cacheVars>>

(***************************************************************************)
(* The messages of upload_file and analyze_data when the analysis fails    *)
(***************************************************************************)
\* A message is a sequence of parts.  A part written in the handler is a
\* literal; a part taken from str(e) of the exception comes from the
\* exception, and may be a path of the server's file system.
Literal(text) == [origin |-> "handler", path |-> FALSE, text |-> text]
Detail(text) == [origin |-> "exception", path |-> FALSE, text |-> text]
DetailPath(text) == [origin |-> "exception", path |-> TRUE, text |-> text]

\* str(filepath), str(plot_path), str(report_path) given to BenfordAnalyzer
CsvPath == "UPLOAD_ROOT/0_a.csv"
PlotPath == "STATIC_IMAGES_FOLDER/benford_plot_0.png"
ReportPath == "STATIC_REPORTS_FOLDER/benford_report_0.txt"

\* what plt.savefig or open(path, 'w') raises when the write fails
OsErrors == {"PermissionError", "FileNotFoundError"}

\* the handlers that run an analysis on an uploaded file
AnalysisHandlers == {"upload_file", "analyze_data"}

\* the exception analyzer.run() raises, with str(e) as parts:
\* analyzer.py:40-47 for load_data, pandas for a file that does not parse,
\* the operating system for a failed write
RaisedByRun(file, col, fault, oserror) ==
    LET load == LoadData(file, col)
        run == AnalyzerRun(file, col, PlotPath, ReportPath, fault)
    IN  IF run.outcome = "returned" THEN [type |-> "none", str |-> <<>>]
        ELSE IF load.outcome = "FileNotFoundError"
        THEN [type |-> "FileNotFoundError",
              str |-> <<Detail("File not found: "), DetailPath(CsvPath)>>]
        ELSE IF load.outcome = "ParserError"
        THEN [type |-> "ParserError", str |-> <<Detail("Error tokenizing data.")>>]
        ELSE IF load.outcome = "ValueError" /\ load.message = "Column not found"
        THEN [type |-> "ValueError",
              str |-> <<Detail("Column '"), Detail(col), Detail("' not found in "),
                        DetailPath(CsvPath)>>]
        ELSE IF load.outcome = "ValueError"
        THEN [type |-> "ValueError",
              str |-> <<Detail("Column '"), Detail(col),
                        Detail("' is not numeric or contains no numeric values.")>>]
        ELSE [type |-> oserror,
              str |-> <<Detail(IF oserror = "PermissionError"
                               THEN "[Errno 13] Permission denied: "
                               ELSE "[Errno 2] No such file or directory: "),
                        DetailPath(IF fault = "plot" THEN PlotPath ELSE ReportPath)>>]

\* the except clause that catches the exception: upload_file has clauses for
\* FileNotFoundError, ValueError and Exception (lines 510-532), analyze_data
\* for ValueError and Exception (lines 820-827)
ExceptBranch(handler, type) ==
    IF type = "ValueError" THEN "ValueError"
    ELSE IF type = "FileNotFoundError" /\ handler = "upload_file"
    THEN "FileNotFoundError"
    ELSE "Exception"

\* flash(f'An unexpected error occurred: {str(e)}'), lines 530 and 825
UnexpectedFlash(str) == <<Literal("An unexpected error occurred: ")>> \o str

\* the order in which the columns of a file are named
ColumnOrder == <<"value", "name">>

\* the dtype pandas gives a column is a number type when the column has
\* cells and each of them is a number or empty
NumericDtype(cells) ==
    /\ cells # <<>>
    /\ \A i \in DOMAIN cells : cells[i] = "" \/ ~ToNumeric(cells[i]).nan

\* df.select_dtypes(include=['number']).columns.tolist(), line 518
NumericCols(file) ==
    SelectSeq(ColumnOrder,
              LAMBDA c : c \in DOMAIN file.columns /\ NumericDtype(file.columns[c]))

\* df.columns.tolist(), line 519
AllCols(file) == SelectSeq(ColumnOrder, LAMBDA c : c \in DOMAIN file.columns)

\* ', '.join(names) as parts
Listed(names) == [i \in DOMAIN names |-> Literal(names[i])]

\* lines 516-524: upload_file reads the file again and names its columns
ColumnHelp(file, col) ==
    IF NumericCols(file) # <<>>
    THEN <<Literal("Column '"), Literal(col),
           Literal("' not found or not numeric. Available numeric columns: ")>>
             \o Listed(NumericCols(file))
    ELSE <<Literal("No numeric columns found in the CSV. Available columns: ")>>
             \o Listed(AllCols(file))

\* the message flashed for the exception
FailureFlash(handler, raised, file, col) ==
    LET branch == ExceptBranch(handler, raised.type)
    IN  IF branch = "FileNotFoundError"
        THEN <<Literal("File error: ")>> \o raised.str
        ELSE IF branch = "ValueError" /\ handler = "upload_file"
        THEN ColumnHelp(file, col)
        ELSE IF branch = "ValueError"
        THEN <<Literal("Error: ")>> \o raised.str
        ELSE UnexpectedFlash(raised.str)

\* what goes to the log: logger.error(..., exc_info=True) writes str(e) and
\* the traceback (lines 511-512, 531, 826); the ValueError clauses log the
\* column only
FailureLog(handler, raised) ==
    IF ExceptBranch(handler, raised.type) = "ValueError"
    THEN <<Literal("Invalid column")>>
    ELSE <<Literal("error during analysis: ")>> \o raised.str

\* no analysis was made
NoFailCall ==
    [handler |-> "none", raised |-> "none", carried |-> <<>>, branch |-> "none",
     flash |-> <<>>, logged |-> <<>>]

FailInit == failCall = NoFailCall

\* the component is not exercised
FailIdle == failCall = NoFailCall

\* the try statement around analyzer.run() in upload_file and analyze_data
RunAndReport(handler, oserror) ==
    LET raised == RaisedByRun(csvFile, column, runArgs.fault, oserror)
    IN  /\ failCall = NoFailCall
        /\ failCall' =
              IF raised.type = "none"
              THEN [handler |-> handler, raised |-> "none", carried |-> <<>>,
                    branch |-> "none", flash |-> <<>>, logged |-> <<>>]
              ELSE [handler |-> handler, raised |-> raised.type,
                    carried |-> raised.str,
                    branch |-> ExceptBranch(handler, raised.type),
                    flash |-> FailureFlash(handler, raised, csvFile, column),
                    logged |-> FailureLog(handler, raised)]
        /\ UNCHANGED <<limiterVars, csrfVars, pathVars, vaultVars, interpVars, loadVars, sweepVars, reqVars, redisVars, runVars, catalogVars, writeVars, refVars, authVars, searchVars, buildVars, cleanupVars, verdictVars, tokenVars, credVars, raceVars, dlVars, shareVars, cacheVars>>

(***************************************************************************)
(* RedisRateLimiter: construction, check and reset (src/app.py:167-198)    *)
(***************************************************************************)
NoBuiltCall == [op |-> None, key |-> None, up |-> FALSE, outcome |-> None]

\* before the module builds its limiter: the library may be missing and the
\* server may be down
BuildInit ==
    /\ redis_installed \in BOOLEAN
    /\ redis_up \in BOOLEAN
    /\ fallback = "unbuilt"
    /\ builtCall = NoBuiltCall

\* a RedisRateLimiter that __init__ has built on the installed library
BuiltOnRedis ==
    /\ redis_installed = TRUE
    /\ redis_up = TRUE
    /\ fallback = None
    /\ builtCall = NoBuiltCall

\* the component is not exercised
BuildIdle ==
    /\ redis_installed = FALSE
    /\ redis_up = FALSE
    /\ fallback = "unbuilt"
    /\ builtCall = NoBuiltCall

\* __init__, lines 168-178: only a failing import selects the fallback;
\* redis.Redis.from_url builds a client without connecting
FallbackChosen(installed, up) ==
    IF installed THEN None ELSE "InMemoryRateLimiter"

\* _build_rate_limiter with RATE_LIMIT_BACKEND=redis and a REDIS_URL,
\* lines 201-204: RedisRateLimiter.__init__
RedisRateLimiterInit ==
    /\ fallback = "unbuilt"
    /\ fallback' = FallbackChosen(redis_installed, redis_up)
    /\ builtCall' = [op |-> "__init__", key |-> None, up |-> redis_up,
                     outcome |-> "returned"]
    /\ UNCHANGED <<redis_installed, redis_up>>
    /\ UNCHANGED <<limiterVars, csrfVars, pathVars, vaultVars, interpVars, loadVars, sweepVars, reqVars, redisVars, runVars, catalogVars, writeVars, refVars, authVars, searchVars, failVars, cleanupVars, verdictVars, tokenVars, credVars, raceVars, dlVars, shareVars, cacheVars>>

\* the server stops answering, or answers again
RedisOutage ==
    /\ redis_up' = ~redis_up
    /\ UNCHANGED <<redis_installed, fallback, builtCall>>
    /\ UNCHANGED <<limiterVars, csrfVars, pathVars, vaultVars, interpVars, loadVars, sweepVars, reqVars, redisVars, runVars, catalogVars, writeVars, refVars, authVars, searchVars, failVars, cleanupVars, verdictVars, tokenVars, credVars, raceVars, dlVars, shareVars, cacheVars>>

\* RedisRateLimiter.check(k), lines 180-192: the fallback's check when there
\* is one; otherwise the pipeline, whose execute() raises ConnectionError when
\* the server does not answer
RedisRateLimiterCheck(k) ==
    /\ fallback # "unbuilt"
    /\ lock = None
    /\ IF fallback = "InMemoryRateLimiter"
       THEN LET ok == CheckAdmits(store[k], clock, window_seconds, max_requests)
            IN  /\ store' = [store EXCEPT
                       ![k] = CheckEntries(@, clock, window_seconds, max_requests)]
                /\ builtCall' = [op |-> "check", key |-> k, up |-> redis_up,
                                 outcome |-> IF ok THEN "True" ELSE "False"]
                /\ UNCHANGED <<redis_zsets, redis_expire_at>>
       ELSE IF redis_up
       THEN LET now_ms == Millis(clock)
                window_ms == Millis(window_seconds)
                key_name == KeyName(k)
                count == RedisCount(redis_zsets[key_name],
                                    redis_expire_at[key_name], now_ms, window_ms)
            IN  /\ redis_zsets' = [redis_zsets EXCEPT
                       ![key_name] = RedisZset(@, redis_expire_at[key_name],
                                               now_ms, window_ms)]
                /\ redis_expire_at' = [redis_expire_at EXCEPT
                       ![key_name] = now_ms + Millis(window_seconds)]
                /\ builtCall' = [op |-> "check", key |-> k, up |-> redis_up,
                                 outcome |-> IF RedisAdmits(count, max_requests)
                                             THEN "True" ELSE "False"]
                /\ UNCHANGED store
       ELSE /\ builtCall' = [op |-> "check", key |-> k, up |-> redis_up,
                             outcome |-> "ConnectionError"]
            /\ UNCHANGED <<store, redis_zsets, redis_expire_at>>
    /\ UNCHANGED <<redis_installed, redis_up, fallback, redisCheck>>
    /\ UNCHANGED <<max_requests, window_seconds, lock, clock, pc, tkey, tnow,
                   lastCheck, admitted>>
    /\ UNCHANGED <<csrfVars, pathVars, vaultVars, interpVars, loadVars, sweepVars, reqVars, runVars, catalogVars, writeVars, refVars, authVars, searchVars, failVars, cleanupVars, verdictVars, tokenVars, credVars, raceVars, dlVars, shareVars, cacheVars>>

\* RedisRateLimiter.reset(), lines 194-198: the fallback's reset when there is
\* one; otherwise nothing is sent to the server
RedisRateLimiterReset ==
    /\ fallback # "unbuilt"
    /\ lock = None
    /\ store' = IF fallback = "InMemoryRateLimiter" THEN ClearStore(store)
                ELSE store
    /\ builtCall' = [op |-> "reset", key |-> None, up |-> redis_up,
                     outcome |-> "returned"]
    /\ UNCHANGED <<redis_installed, redis_up, fallback>>
    /\ UNCHANGED <<redis_zsets, redis_expire_at, redisCheck>>
    /\ UNCHANGED <<max_requests, window_seconds, lock, clock, pc, tkey, tnow,
                   lastCheck, admitted>>
    /\ UNCHANGED <<csrfVars, pathVars, vaultVars, interpVars, loadVars, sweepVars, reqVars, runVars, catalogVars, writeVars, refVars, authVars, searchVars, failVars, cleanupVars, verdictVars, tokenVars, credVars, raceVars, dlVars, shareVars, cacheVars>>

(***************************************************************************)
(* maybe_run_cleanup called by itself (src/app.py:258-279)                 *)
(***************************************************************************)
\* the clock of the cleanup specification runs over 0..MaxCleanupTime
MaxCleanupTime == 3

NoCleanupCall == [seq |-> 0, now |-> 0, swept |-> FALSE, failed |-> {}]

\* the application after start-up, with whatever the upload folder holds
CleanupInit ==
    /\ retention_age \in 1..MaxRetention
    /\ cleanup_interval \in 1..MaxInterval
    /\ last_cleanup_at = NoTime
    /\ kaggle_store = NoKaggleStore
    /\ kaggle_cache = <<>>
    /\ response = NoResponse
    /\ cleanupCall = NoCleanupCall

\* the component is not exercised
CleanupIdle ==
    /\ cleanupCall = NoCleanupCall

\* maybe_run_cleanup(), lines 258-279, `failing` being the files whose unlink
\* raises
CallMaybeRunCleanup(failing) ==
    LET due == CleanupDue(last_cleanup_at, clock, cleanup_interval)
    IN  /\ failing \subseteq DueStaleFiles
        /\ dirs' = Swept(failing)
        /\ last_cleanup_at' = IF due THEN clock ELSE last_cleanup_at
        /\ sweepCall' =
               IF due
               THEN [root |-> "reports", older_than |-> retention_age,
                     now |-> clock,
                     removed |-> IF "reports" \in roots
                                 THEN DOMAIN dirs["reports"]
                                          \ DOMAIN Swept(failing)["reports"]
                                 ELSE {},
                     failed |-> failing \cap DOMAIN dirs["reports"]]
               ELSE sweepCall
        /\ cleanupCall' = [seq |-> 1 - cleanupCall.seq, now |-> clock,
                           swept |-> due, failed |-> failing]
        /\ UNCHANGED <<roots, retention_age, cleanup_interval, kaggle_store,
                       kaggle_cache, response>>
        /\ UNCHANGED <<limiterVars, csrfVars, pathVars, vaultVars, interpVars, loadVars, redisVars, runVars, catalogVars, writeVars, refVars, authVars, searchVars, failVars, buildVars, verdictVars, tokenVars, credVars, raceVars, dlVars, shareVars, cacheVars>>

(***************************************************************************)
(* The report's conclusion and the interpretation of the same p-value      *)
(* (src/benford/analyzer.py:81-86, src/benford/interpretation.py:26-47)    *)
(***************************************************************************)
\* a mutation of Conclusion: a p-value of exactly 0.05 is no anomaly
ConclusionInclusive(p) ==
    IF p >= Alpha THEN "No anomaly detected" ELSE "Anomaly detected"

\* _save_report, line 86: the conclusion written for bl.p
Conclusion(p) ==
    IF p > Alpha THEN "No anomaly detected" ELSE "Anomaly detected"

VerdictInit ==
    /\ reportLine = ""

\* the component is not exercised
VerdictIdle ==
    /\ reportLine = ""

\* the report of an analysis is written and its p-value is interpreted
ReportAndInterpret ==
    /\ interpCall = NoInterpCall
    /\ interpArgs.p_value # NoStat
    /\ reportLine' = Conclusion(interpArgs.p_value)
    /\ interpCall' = InterpretResults(interpArgs.p_value, interpArgs.chi_squared,
                                      interpArgs.dataset_name, interpArgs.expectation)
    /\ UNCHANGED interpArgs
    /\ UNCHANGED <<limiterVars, csrfVars, pathVars, vaultVars, loadVars, sweepVars, reqVars, redisVars, runVars, catalogVars, writeVars, refVars, authVars, searchVars, failVars, buildVars, cleanupVars, tokenVars, credVars, raceVars, dlVars, shareVars, cacheVars>>

(***************************************************************************)
(* Stored credentials: set_kaggle_credentials and get_kaggle_credentials   *)
(* (src/app.py:358-379)                                                    *)
(***************************************************************************)
\* the clock of the credential specification runs over 0..MaxCredTime, in
\* ticks of 15 minutes
MaxCredTime == 6

\* an expires_at that datetime.fromisoformat rejects
UnparsableTime == -3

\* where no credentials are returned
NoCreds == [username |-> "", key |-> ""]

\* a mutation of Expired: the expiry is never reached
ExpiredNever(expires_at, now) == FALSE

\* line 372: datetime.fromisoformat(expires_at) < datetime.utcnow()
Expired(expires_at, now) == expires_at < now

\* get_kaggle_credentials(), lines 365-379: what it returns, and whether
\* decrypt_credentials was called
GetKaggleCredentials(ks, now) ==
    IF ~ks.has_token \/ ks.expires_at = NoTime
    THEN [outcome |-> "None", value |-> NoCreds, decrypted |-> FALSE]
    ELSE IF ks.expires_at = UnparsableTime
    THEN [outcome |-> "None", value |-> NoCreds, decrypted |-> FALSE]
    ELSE IF Expired(ks.expires_at, now)
    THEN [outcome |-> "None", value |-> NoCreds, decrypted |-> FALSE]
    ELSE LET d == DecryptCredentials(SecretKey, ks.token) IN
         IF d.outcome = "returned"
         THEN [outcome |-> "returned", value |-> d.value, decrypted |-> TRUE]
         ELSE IF d.outcome = "ExternalDataAuthError"
         THEN [outcome |-> "None", value |-> NoCreds, decrypted |-> TRUE]
         ELSE [outcome |-> d.outcome, value |-> NoCreds, decrypted |-> TRUE]

\* what a session cookie not written by set_kaggle_credentials can hold
ForeignStores ==
    {ks \in [present : {TRUE}, has_token : BOOLEAN,
             token : {GarbageToken, EncryptCredentials(SecretKey, FormCredentials)},
             expires_at : {NoTime, UnparsableTime, 1, CREDENTIAL_LIFETIME + 1},
             calls : {<<>>}] :
        ~ks.has_token => ks.token = GarbageToken}

NoCredOrigin == [by |-> "none", creds |-> NoCreds, at |-> 0]
NoCredCall == [seq |-> 0, outcome |-> "None", value |-> NoCreds,
               decrypted |-> FALSE]

CredInit ==
    /\ credOrigin = NoCredOrigin
    /\ credCall = NoCredCall

\* the component is not exercised
CredIdle ==
    /\ credOrigin = NoCredOrigin
    /\ credCall = NoCredCall

\* set_kaggle_credentials(username, key), lines 358-362
StoreCredentials(creds) ==
    /\ kaggle_store' = SetKaggleCredentials(kaggle_store, creds, clock)
    /\ credOrigin' = [by |-> "set", creds |-> creds, at |-> clock]
    /\ UNCHANGED credCall
    /\ UNCHANGED <<retention_age, cleanup_interval, last_cleanup_at,
                   kaggle_cache, response>>
    /\ UNCHANGED <<limiterVars, csrfVars, pathVars, vaultVars, interpVars, loadVars, sweepVars, redisVars, runVars, catalogVars, writeVars, refVars, authVars, searchVars, failVars, buildVars, cleanupVars, verdictVars, tokenVars, raceVars, dlVars, shareVars, cacheVars>>

\* the client presents a session that set_kaggle_credentials did not write
ForeignSession(ks) ==
    /\ kaggle_store' = ks
    /\ credOrigin' = [by |-> "foreign", creds |-> NoCreds, at |-> clock]
    /\ UNCHANGED credCall
    /\ UNCHANGED <<retention_age, cleanup_interval, last_cleanup_at,
                   kaggle_cache, response>>
    /\ UNCHANGED <<limiterVars, csrfVars, pathVars, vaultVars, interpVars, loadVars, sweepVars, redisVars, runVars, catalogVars, writeVars, refVars, authVars, searchVars, failVars, buildVars, cleanupVars, verdictVars, tokenVars, raceVars, dlVars, shareVars, cacheVars>>

\* get_kaggle_credentials(), lines 365-379; _get_kaggle_store creates the
\* store when the session has none (lines 353-355)
FetchCredentials ==
    /\ credCall' = [seq |-> 1 - credCall.seq]
                       @@ GetKaggleCredentials(kaggle_store, clock)
    /\ kaggle_store' = [kaggle_store EXCEPT !.present = TRUE]
    /\ UNCHANGED credOrigin
    /\ UNCHANGED <<retention_age, cleanup_interval, last_cleanup_at,
                   kaggle_cache, response>>
    /\ UNCHANGED <<limiterVars, csrfVars, pathVars, vaultVars, interpVars, loadVars, sweepVars, redisVars, runVars, catalogVars, writeVars, refVars, authVars, searchVars, failVars, buildVars, cleanupVars, verdictVars, tokenVars, raceVars, dlVars, shareVars, cacheVars>>

(***************************************************************************)
(* maybe_run_cleanup run by several request threads (src/app.py:258-284)   *)
(***************************************************************************)
\* the clock of the concurrent cleanup specification runs over 0..MaxRaceTime
MaxRaceTime == 1

\* the threads that serve requests at the same time
CleanupThreads == {"t1", "t2", "t3"}

RaceInit ==
    /\ cleanup_pc = [t \in CleanupThreads |-> "idle"]
    /\ cleanup_now = [t \in CleanupThreads |-> 0]
    /\ sweep_log = <<>>

\* the component is not exercised
RaceIdle ==
    /\ cleanup_pc = [t \in CleanupThreads |-> "idle"]
    /\ cleanup_now = [t \in CleanupThreads |-> 0]
    /\ sweep_log = <<>>

\* lines 260-263: the thread reads LAST_CLEANUP_AT and the time, and returns
\* when no sweep is due; nothing is locked
CleanupRead(t) ==
    /\ cleanup_pc[t] = "idle"
    /\ cleanup_now' = [cleanup_now EXCEPT ![t] = clock]
    /\ cleanup_pc' = [cleanup_pc EXCEPT ![t] =
           IF CleanupDue(last_cleanup_at, clock, cleanup_interval)
           THEN "sweeping" ELSE "idle"]
    /\ UNCHANGED sweep_log
    /\ UNCHANGED <<sweepVars, reqVars, dlVars, shareVars, cacheVars>>
    /\ UNCHANGED <<limiterVars, csrfVars, pathVars, vaultVars, interpVars, loadVars, redisVars, runVars, catalogVars, writeVars, refVars, authVars, searchVars, failVars, buildVars, cleanupVars, verdictVars, tokenVars, credVars, dlVars, shareVars, cacheVars>>

\* lines 265-277: the thread sweeps the folders, `failing` being the files
\* whose unlink raises; cleanup_stale_files reads the time again (line 245)
CleanupSweep(t, failing) ==
    /\ cleanup_pc[t] = "sweeping"
    /\ failing \subseteq UNION {StaleFiles(dirs[f], clock, retention_age) :
                                   f \in Folders \cap roots}
    /\ dirs' = [f \in Folders |->
                   IF f \in roots
                   THEN SweepFolder(dirs[f], clock, retention_age,
                                    failing \cap StaleFiles(dirs[f], clock,
                                                            retention_age))
                   ELSE dirs[f]]
    /\ sweepCall' = [root |-> "reports", older_than |-> retention_age,
                     now |-> clock,
                     removed |-> IF "reports" \in roots
                                 THEN DOMAIN dirs["reports"] \ DOMAIN dirs'["reports"]
                                 ELSE {},
                     failed |-> failing \cap DOMAIN dirs["reports"]]
    /\ sweep_log' = Append(sweep_log, cleanup_now[t])
    /\ cleanup_pc' = [cleanup_pc EXCEPT ![t] = "stamping"]
    /\ UNCHANGED <<roots, cleanup_now>>
    /\ UNCHANGED reqVars
    /\ UNCHANGED <<limiterVars, csrfVars, pathVars, vaultVars, interpVars, loadVars, redisVars, runVars, catalogVars, writeVars, refVars, authVars, searchVars, failVars, buildVars, cleanupVars, verdictVars, tokenVars, credVars, dlVars, shareVars, cacheVars>>

\* line 279: app.config['LAST_CLEANUP_AT'] = now
CleanupStamp(t) ==
    /\ cleanup_pc[t] = "stamping"
    /\ last_cleanup_at' = cleanup_now[t]
    /\ cleanup_pc' = [cleanup_pc EXCEPT ![t] = "idle"]
    /\ UNCHANGED <<cleanup_now, sweep_log>>
    /\ UNCHANGED <<retention_age, cleanup_interval, kaggle_store, kaggle_cache,
                   response>>
    /\ UNCHANGED sweepVars
    /\ UNCHANGED <<limiterVars, csrfVars, pathVars, vaultVars, interpVars, loadVars, redisVars, runVars, catalogVars, writeVars, refVars, authVars, searchVars, failVars, buildVars, cleanupVars, verdictVars, tokenVars, credVars, dlVars, shareVars, cacheVars>>

(***************************************************************************)
(* KaggleDataSource.download (src/benford/external_data.py:175-191)        *)
(***************************************************************************)
\* a name is the sequence of its segments: one segment where it holds no
\* "/", none where it is empty
ExpectedName == <<"data.csv">>
DownloadNames == {ExpectedName, <<>>, <<"sub", "data.csv">>}
DownloadRefs == {<<"a", "/", "a">>, <<"a">>}

\* the members an archive of the provider can hold
ArchiveMembers == {ExpectedName, <<"other.csv">>, <<"sub", "notes.txt">>}
Deliveries ==
    {[zipped |-> FALSE, members |-> {}]}
        \cup {[zipped |-> TRUE, members |-> ms] : ms \in SUBSET ArchiveMembers}

\* f"{safe_name}.zip", line 182
ZipName(name) == <<name[1], ".zip">>

\* what the upload folder can hold before the call
EarlierFiles == {<<"other.csv">>}

\* validate_filename(name), lines 82-85
ValidateFilename(name) ==
    IF Len(name) # 1
    THEN [outcome |-> "ExternalDataError", message |-> "Invalid filename."]
    ELSE [outcome |-> "returned", message |-> ""]

\* api.dataset_download_file(ref, name, path=parent, force=True), line 180:
\* the provider's file, or an archive of it, lands in the folder
Delivered(dir, name, sent) ==
    LET landed == IF sent.zipped THEN ZipName(name) ELSE name IN
    [p \in DOMAIN dir \cup {landed} |-> IF p = landed THEN "provider" ELSE dir[p]]

\* zf.extractall(output_path.parent), lines 186-187: every member of the
\* archive is written below the folder
Extracted(dir, name, sent) ==
    LET written == sent.members IN
    [p \in DOMAIN dir \cup written |-> IF p \in written THEN "archive" ELSE dir[p]]

\* zip_path.unlink(missing_ok=True), line 188
Unlinked(dir, path) == [p \in DOMAIN dir \ {path} |-> dir[p]]

\* download(dataset_id, file_name, output_path), lines 175-191
Download(dir, ref, name, sent) ==
    LET delivered == Delivered(dir, name, sent)
        unpacked == IF ZipName(name) \in DOMAIN delivered
                    THEN Unlinked(Extracted(delivered, name, sent), ZipName(name))
                    ELSE delivered
    IN  IF ValidateDatasetRef(ref).outcome # "returned"
        THEN [dir |-> dir, outcome |-> "ExternalDataError",
              message |-> ValidateDatasetRef(ref).message]
        ELSE IF ValidateFilename(name).outcome # "returned"
        THEN [dir |-> dir, outcome |-> "ExternalDataError",
              message |-> ValidateFilename(name).message]
        ELSE IF name \notin DOMAIN unpacked
        THEN [dir |-> unpacked, outcome |-> "ExternalDataError",
              message |-> "Downloaded file not found after extraction."]
        ELSE [dir |-> unpacked, outcome |-> "returned", message |-> ""]

NoDownloadArgs == [ref |-> <<>>, file_name |-> <<>>]
NoDownloadCall == [outcome |-> None, message |-> ""]

DownloadInit ==
    /\ delivery \in Deliveries
    /\ parent_dir \in UNION {[ps -> {"earlier"}] : ps \in SUBSET EarlierFiles}
    /\ dlArgs \in [ref : DownloadRefs, file_name : DownloadNames]
    /\ dlCall = NoDownloadCall

\* the component is not exercised
DownloadIdle ==
    /\ delivery = [zipped |-> FALSE, members |-> {}]
    /\ parent_dir = <<>>
    /\ dlArgs = NoDownloadArgs
    /\ dlCall = NoDownloadCall

\* kaggle_source.download is called
CallDownload ==
    /\ dlCall = NoDownloadCall
    /\ LET done == Download(parent_dir, dlArgs.ref, dlArgs.file_name, delivery)
       IN  /\ parent_dir' = done.dir
           /\ dlCall' = [outcome |-> done.outcome, message |-> done.message]
    /\ UNCHANGED <<delivery, dlArgs>>
    /\ UNCHANGED <<limiterVars, csrfVars, pathVars, vaultVars, interpVars, loadVars, sweepVars, reqVars, redisVars, runVars, catalogVars, writeVars, refVars, authVars, searchVars, failVars, buildVars, cleanupVars, verdictVars, tokenVars, credVars, raceVars, shareVars, cacheVars>>

(***************************************************************************)
(* kaggle_source, the one KaggleDataSource of the process                  *)
(* (src/app.py:210-211), used by the requests of several sessions          *)
(***************************************************************************)
Sessions == {"s1", "s2"}

\* the credentials each session has stored
SessionCredentials ==
    [s \in Sessions |->
        IF s = "s1" THEN [username |-> Letters(3), key |-> Letters(8)]
        ELSE [username |-> Letters(2) \o <<"_">>, key |-> Letters(7) \o <<"-">>]]

\* _load_api(), lines 115-123: KaggleApi().authenticate() takes the name and
\* the key from the environment as it stands, and the client is kept
LoadApi(env) ==
    [loaded |-> TRUE, username |-> env.KAGGLE_USERNAME, key |-> env.KAGGLE_KEY]

NoSharedCall == [session |-> "none", op |-> "none", username |-> <<>>, key |-> <<>>]

\* api.dataset_list / dataset_list_files / dataset_download_file made for
\* session s with the client _get_api() returns, lines 125-128
RemoteCall(s, op) ==
    [session |-> s, op |-> op, username |-> api.username, key |-> api.key]

\* two sessions, no request under way, a fresh KaggleDataSource
ShareInit ==
    /\ sess_pc = [s \in Sessions |-> <<"none", "idle">>]
    /\ sharedCall = NoSharedCall

\* the component is not exercised
ShareIdle ==
    /\ sess_pc = [s \in Sessions |-> <<"none", "idle">>]
    /\ sharedCall = NoSharedCall

\* kaggle() or kaggle_preview() of session s reaches
\* kaggle_source.authenticate(creds): lines 131-141, the checks and the two
\* assignments to os.environ
SessionExport(s, endpoint) ==
    /\ sess_pc[s] = <<"none", "idle">>
    /\ environ' = Authenticate(SessionCredentials[s], "installed", environ, api).environ
    /\ sess_pc' = [sess_pc EXCEPT ![s] = <<endpoint, "exported">>]
    /\ UNCHANGED <<api, authCall, sharedCall>>
    /\ UNCHANGED <<limiterVars, csrfVars, pathVars, vaultVars, interpVars, loadVars, sweepVars, reqVars, redisVars, runVars, catalogVars, writeVars, refVars, searchVars, failVars, buildVars, cleanupVars, verdictVars, tokenVars, credVars, raceVars, dlVars, cacheVars>>

\* line 142: api = self._load_api()
SessionLoadApi(s) ==
    /\ sess_pc[s][2] = "exported"
    /\ api' = LoadApi(environ)
    /\ sess_pc' = [sess_pc EXCEPT ![s] = <<@[1], "authenticated">>]
    /\ UNCHANGED <<environ, authCall, sharedCall>>
    /\ UNCHANGED <<limiterVars, csrfVars, pathVars, vaultVars, interpVars, loadVars, sweepVars, reqVars, redisVars, runVars, catalogVars, writeVars, refVars, searchVars, failVars, buildVars, cleanupVars, verdictVars, tokenVars, credVars, raceVars, dlVars, cacheVars>>

\* kaggle(), line 692: kaggle_source.search(query)
SessionSearch(s) ==
    /\ sess_pc[s] = <<"kaggle", "authenticated">>
    /\ sharedCall' = RemoteCall(s, "search")
    /\ sess_pc' = [sess_pc EXCEPT ![s] = <<"none", "idle">>]
    /\ UNCHANGED <<environ, api, authCall>>
    /\ UNCHANGED <<limiterVars, csrfVars, pathVars, vaultVars, interpVars, loadVars, sweepVars, reqVars, redisVars, runVars, catalogVars, writeVars, refVars, searchVars, failVars, buildVars, cleanupVars, verdictVars, tokenVars, credVars, raceVars, dlVars, cacheVars>>

\* kaggle_preview(), line 735: kaggle_source.get_metadata(dataset_ref)
SessionGetMetadata(s) ==
    /\ sess_pc[s] = <<"kaggle_preview", "authenticated">>
    /\ sharedCall' = RemoteCall(s, "get_metadata")
    /\ sess_pc' = [sess_pc EXCEPT ![s] = <<"kaggle_preview", "listed">>]
    /\ UNCHANGED <<environ, api, authCall>>
    /\ UNCHANGED <<limiterVars, csrfVars, pathVars, vaultVars, interpVars, loadVars, sweepVars, reqVars, redisVars, runVars, catalogVars, writeVars, refVars, searchVars, failVars, buildVars, cleanupVars, verdictVars, tokenVars, credVars, raceVars, dlVars, cacheVars>>

\* kaggle_preview(), line 747: kaggle_source.download(...)
SessionDownload(s) ==
    /\ sess_pc[s] = <<"kaggle_preview", "listed">>
    /\ sharedCall' = RemoteCall(s, "download")
    /\ sess_pc' = [sess_pc EXCEPT ![s] = <<"none", "idle">>]
    /\ UNCHANGED <<environ, api, authCall>>
    /\ UNCHANGED <<limiterVars, csrfVars, pathVars, vaultVars, interpVars, loadVars, sweepVars, reqVars, redisVars, runVars, catalogVars, writeVars, refVars, searchVars, failVars, buildVars, cleanupVars, verdictVars, tokenVars, credVars, raceVars, dlVars, cacheVars>>

(***************************************************************************)
(* Request threads in kaggle_cache_get and kaggle_cache_set                *)
(* (src/app.py:407-418) on the one _KAGGLE_CACHE of the process            *)
(***************************************************************************)
\* the clock of this component counts quarters of an hour over 0..MaxCacheTime
MaxCacheTime == 3

CacheThreads == {"t1", "t2"}

\* f"kaggle:{query.lower()}" of the query all the threads search for
CacheKey == "benford"

\* no entry: what _KAGGLE_CACHE.get(key) and pop(key, None) give for a
\* missing key
NoEntry == [value |-> "none", expires_at |-> NoTime]

NoCacheCall ==
    [thread |-> "none", op |-> "none", returned |-> "none", removed |-> NoEntry,
     at |-> 0]

\* an empty cache, no thread inside kaggle_cache_get
CacheInit ==
    /\ cache_pc = [t \in CacheThreads |-> "idle"]
    /\ cache_entry = [t \in CacheThreads |-> NoEntry]
    /\ cacheCall = NoCacheCall

\* the component is not exercised
CacheIdle ==
    /\ cache_pc = [t \in CacheThreads |-> "idle"]
    /\ cache_entry = [t \in CacheThreads |-> NoEntry]
    /\ cacheCall = NoCacheCall

\* kaggle_cache_get(key), lines 408-410: entry = _KAGGLE_CACHE.get(key), and
\* None is returned when there is none
CacheGetRead(t) ==
    /\ cache_pc[t] = "idle"
    /\ IF CacheKey \in DOMAIN kaggle_cache
       THEN /\ cache_entry' = [cache_entry EXCEPT ![t] = kaggle_cache[CacheKey]]
            /\ cache_pc' = [cache_pc EXCEPT ![t] = "read"]
            /\ UNCHANGED cacheCall
       ELSE /\ cacheCall' = [thread |-> t, op |-> "get", returned |-> "none",
                             removed |-> NoEntry, at |-> clock]
            /\ UNCHANGED <<cache_pc, cache_entry>>
    /\ UNCHANGED kaggle_cache
    /\ UNCHANGED <<retention_age, cleanup_interval, last_cleanup_at, kaggle_store, response>>
    /\ UNCHANGED limiterVars
    /\ UNCHANGED <<csrfVars, pathVars, vaultVars, interpVars, loadVars, sweepVars, redisVars, runVars, catalogVars, writeVars, refVars, authVars, searchVars, failVars, buildVars, cleanupVars, verdictVars, tokenVars, credVars, raceVars, dlVars, shareVars>>

\* lines 411 and 414: the expiry of the entry read is compared with
\* datetime.utcnow(); an unexpired entry's value is returned
CacheGetCheck(t) ==
    /\ cache_pc[t] = "read"
    /\ IF clock > cache_entry[t].expires_at
       THEN /\ cache_pc' = [cache_pc EXCEPT ![t] = "stale"]
            /\ UNCHANGED <<cache_entry, cacheCall>>
       ELSE /\ cache_pc' = [cache_pc EXCEPT ![t] = "idle"]
            /\ cache_entry' = [cache_entry EXCEPT ![t] = NoEntry]
            /\ cacheCall' = [thread |-> t, op |-> "get",
                             returned |-> cache_entry[t].value,
                             removed |-> NoEntry, at |-> clock]
    /\ UNCHANGED kaggle_cache
    /\ UNCHANGED <<retention_age, cleanup_interval, last_cleanup_at, kaggle_store, response>>
    /\ UNCHANGED limiterVars
    /\ UNCHANGED <<csrfVars, pathVars, vaultVars, interpVars, loadVars, sweepVars, redisVars, runVars, catalogVars, writeVars, refVars, authVars, searchVars, failVars, buildVars, cleanupVars, verdictVars, tokenVars, credVars, raceVars, dlVars, shareVars>>

\* lines 412-413: _KAGGLE_CACHE.pop(key, None) removes whatever entry the key
\* has by now, and None is returned
CacheGetPop(t) ==
    /\ cache_pc[t] = "stale"
    /\ kaggle_cache' = [k \in DOMAIN kaggle_cache \ {CacheKey} |-> kaggle_cache[k]]
    /\ cache_pc' = [cache_pc EXCEPT ![t] = "idle"]
    /\ cache_entry' = [cache_entry EXCEPT ![t] = NoEntry]
    /\ cacheCall' = [thread |-> t, op |-> "pop", returned |-> "none",
                     removed |-> IF CacheKey \in DOMAIN kaggle_cache
                                 THEN kaggle_cache[CacheKey] ELSE NoEntry,
                     at |-> clock]
    /\ UNCHANGED <<retention_age, cleanup_interval, last_cleanup_at, kaggle_store, response>>
    /\ UNCHANGED limiterVars
    /\ UNCHANGED <<csrfVars, pathVars, vaultVars, interpVars, loadVars, sweepVars, redisVars, runVars, catalogVars, writeVars, refVars, authVars, searchVars, failVars, buildVars, cleanupVars, verdictVars, tokenVars, credVars, raceVars, dlVars, shareVars>>

\* kaggle_cache_set(key, value), lines 417-418
CacheSet(t, value) ==
    /\ cache_pc[t] = "idle"
    /\ kaggle_cache' = KaggleCacheSet(kaggle_cache, CacheKey, value, clock)
    /\ cacheCall' = [thread |-> t, op |-> "set", returned |-> "none",
                     removed |-> NoEntry, at |-> clock]
    /\ UNCHANGED <<cache_pc, cache_entry>>
    /\ UNCHANGED <<retention_age, cleanup_interval, last_cleanup_at, kaggle_store, response>>
    /\ UNCHANGED limiterVars
    /\ UNCHANGED <<csrfVars, pathVars, vaultVars, interpVars, loadVars, sweepVars, redisVars, runVars, catalogVars, writeVars, refVars, authVars, searchVars, failVars, buildVars, cleanupVars, verdictVars, tokenVars, credVars, raceVars, dlVars, shareVars>>

(***************************************************************************)
(* SpecLimiter: one thread calls check() while time passes                 *)
(***************************************************************************)
InitLimiter ==
    /\ LimiterInit
    /\ CsrfIdle
    /\ PathIdle
    /\ VaultIdle
    /\ InterpIdle
    /\ LoadIdle
    /\ SweepIdle
    /\ ReqIdle
    /\ RedisIdle
    /\ RunIdle
    /\ CatalogIdle
    /\ WriteIdle
    /\ RefIdle
    /\ AuthIdle
    /\ SearchIdle
    /\ FailIdle
    /\ BuildIdle
    /\ CleanupIdle
    /\ VerdictIdle
    /\ TokenIdle
    /\ CredIdle
    /\ RaceIdle
    /\ DownloadIdle
    /\ ShareIdle
    /\ CacheIdle

NextLimiter ==
    \/ Tick(MaxTime)
    \/ \E k \in Keys : Check(k)

SpecLimiter == InitLimiter /\ [][NextLimiter]_vars

\* the admissions of k that are at most window_seconds old at time now
RecentAdmissions(k, now) ==
    Cardinality({i \in DOMAIN admitted[k] : now - admitted[k][i] <= window_seconds})

\* the admissions of k whose timestamp lies in the window [start, start + window_seconds]
AdmittedInWindow(k, start) ==
    Cardinality({i \in DOMAIN admitted[k] :
                    /\ start <= admitted[k][i]
                    /\ admitted[k][i] <= start + window_seconds})

\* C1 (amended): a check for X made while `max` admissions of X are at most
\* `window` seconds old is denied, and a check made when more than `window`
\* seconds have passed since every admission of X is admitted.
C1_SlidingWindow ==
    [][\A k \in Keys : Check(k) =>
        /\ (RecentAdmissions(k, clock) >= max_requests => ~lastCheck'.ok)
        /\ ((\A i \in DOMAIN admitted[k] : clock - admitted[k][i] > window_seconds)
               => lastCheck'.ok)]_vars

\* C1 as stated: a check made once `window` seconds have elapsed since the
\* admissions (exactly `window` seconds included) is admitted.
C1_AsStated ==
    [][\A k \in Keys : Check(k) =>
        ((\A i \in DOMAIN admitted[k] : clock - admitted[k][i] >= window_seconds)
            => lastCheck'.ok)]_vars

\* C1 witness: an identifier was admitted `max` times, denied, and after the
\* window had passed admitted again
C1_Witness ==
    /\ lastCheck # NoCheck
    /\ lastCheck.ok
    /\ Len(admitted[lastCheck.key]) > max_requests
    /\ Len(store[lastCheck.key]) = 1
    /\ max_requests > 1

\* the timestamps of a window that are not older than window_seconds at `now`
Unexpired(entries, now) ==
    SelectSeq(entries, LAMBDA ts : ~(now - ts > window_seconds))

\* the time up to which the identifier stays blocked: the expiry of the
\* oldest of the last max_requests timestamps of its window (0 when it holds
\* fewer)
BlockedUntil(entries) ==
    IF Len(entries) < max_requests THEN 0
    ELSE entries[Len(entries) - max_requests + 1] + window_seconds

\* C36: a check that the in-process limiter denies records no timestamp: the
\* identifier's window is what it was less its expired entries, the windows
\* of the other identifiers are untouched, and the identifier is not blocked
\* for longer than before.
C36_DeniedRecordsNothing ==
    [][\A k \in Keys : (Check(k) /\ ~lastCheck'.ok) =>
        /\ store'[k] = Unexpired(store[k], clock)
        /\ \A j \in Keys \ {k} : store'[j] = store[j]
        /\ Len(store'[k]) <= Len(store[k])
        /\ BlockedUntil(store'[k]) <= BlockedUntil(store[k])]_vars

\* C36 witness: an identifier at its limit was denied later than its last
\* admission, and its window still ends with that admission
C36_Witness ==
    /\ lastCheck # NoCheck
    /\ ~lastCheck.ok
    /\ Len(store[lastCheck.key]) = max_requests
    /\ store[lastCheck.key][max_requests] < lastCheck.now
    /\ clock = lastCheck.now

(***************************************************************************)
(* SpecConc: the request threads call check() concurrently                 *)
(***************************************************************************)
InitConc ==
    /\ LimiterInit
    /\ CsrfIdle
    /\ PathIdle
    /\ VaultIdle
    /\ InterpIdle
    /\ LoadIdle
    /\ SweepIdle
    /\ ReqIdle
    /\ RedisIdle
    /\ RunIdle
    /\ CatalogIdle
    /\ WriteIdle
    /\ RefIdle
    /\ AuthIdle
    /\ SearchIdle
    /\ FailIdle
    /\ BuildIdle
    /\ CleanupIdle
    /\ VerdictIdle
    /\ TokenIdle
    /\ CredIdle
    /\ RaceIdle
    /\ DownloadIdle
    /\ ShareIdle
    /\ CacheIdle

NextConc ==
    \/ Tick(MaxConcTime)
    \/ \E t \in Threads : CheckReadNow(t, ConcKey)
    \/ \E t \in Threads : CheckLocked(t)

SpecConc == InitConc /\ [][NextConc]_vars

\* the number of entries of s equal to v
Occurrences(s, v) == Cardinality({i \in DOMAIN s : s[i] = v})

\* C10: under concurrent check() calls every admitted timestamp that is still
\* inside the window is retained in the identifier's list, and no window
\* holds more than `max` admissions.
C10_NoLostUpdate ==
    \A k \in Keys :
        /\ \A v \in 0..MaxTime :
               clock - v <= window_seconds
                   => Occurrences(store[k], v) = Occurrences(admitted[k], v)
        /\ \A start \in 0..MaxTime : AdmittedInWindow(k, start) <= max_requests

\* C28: in every reachable state each identifier's list is in non-decreasing
\* order and holds at most max_requests entries, and the list of the
\* identifier checked last holds no timestamp older than window_seconds at
\* the time of that check.
C28_RetainedList ==
    \A k \in Keys :
        /\ \A i \in DOMAIN store[k] : \A j \in DOMAIN store[k] :
               i < j => store[k][i] <= store[k][j]
        /\ Len(store[k]) <= max_requests
        /\ lastCheck.key = k =>
               \A i \in DOMAIN store[k] :
                   store[k][i] >= lastCheck.now - window_seconds

(***************************************************************************)
(* SpecCsrf: a session obtains its token and submits forms                 *)
(***************************************************************************)
InitCsrf ==
    /\ CsrfInit
    /\ LimiterIdle
    /\ PathIdle
    /\ VaultIdle
    /\ InterpIdle
    /\ LoadIdle
    /\ SweepIdle
    /\ ReqIdle
    /\ RedisIdle
    /\ RunIdle
    /\ CatalogIdle
    /\ WriteIdle
    /\ RefIdle
    /\ AuthIdle
    /\ SearchIdle
    /\ FailIdle
    /\ BuildIdle
    /\ CleanupIdle
    /\ VerdictIdle
    /\ TokenIdle
    /\ CredIdle
    /\ RaceIdle
    /\ DownloadIdle
    /\ ShareIdle
    /\ CacheIdle

NextCsrf ==
    \/ GetCsrfToken
    \/ \E form_token \in FormTokens : ValidateCsrf(form_token)
    \/ NewSession

SpecCsrf == InitCsrf /\ [][NextCsrf]_vars

\* C2: validate_csrf returns false when the submitted token is empty or
\* missing, false when the session holds no token, false when both are
\* non-empty and differ, and true only when the two are equal.
C2_ValidateCsrf ==
    csrfCall.result # "unset" =>
        /\ Falsy(csrfCall.form) => csrfCall.result = "False"
        /\ Falsy(csrfCall.expected) => csrfCall.result = "False"
        /\ (/\ ~Falsy(csrfCall.form)
            /\ ~Falsy(csrfCall.expected)
            /\ csrfCall.form # csrfCall.expected) => csrfCall.result = "False"
        /\ csrfCall.result = "True" => csrfCall.form = csrfCall.expected
        /\ csrfCall.result \in {"True", "False"}

\* C29: the first get_csrf_token call of a session stores a non-empty token
\* and returns it; every later call of the session returns the token the
\* session holds and leaves it in place; and validate_csrf of the token the
\* session holds returns True.
C29_TokenIdempotent ==
    [][ /\ tokenCall' # tokenCall =>
               /\ ~Falsy(tokenCall'.returned)
               /\ session_csrf' = tokenCall'.returned
               /\ ~Falsy(session_csrf) =>
                      /\ tokenCall'.returned = session_csrf
                      /\ session_csrf' = session_csrf
        /\ (/\ csrfCall' # csrfCall
            /\ ~Falsy(session_csrf)
            /\ csrfCall'.form = session_csrf) => csrfCall'.result = "True" ]_vars

\* a later call returned the token the first call had issued, and the token
\* has been validated
C29_Witness ==
    /\ ~Falsy(tokenCall.before)
    /\ tokenCall.returned = tokenCall.before
    /\ session_csrf = tokenCall.returned
    /\ csrfCall.form = session_csrf
    /\ csrfCall.expected = session_csrf
    /\ csrfCall.result = "True"

(***************************************************************************)
(* SpecPath: the two functions are called with every raw filename          *)
(***************************************************************************)
InitPath ==
    /\ PathInit
    /\ LimiterIdle
    /\ CsrfIdle
    /\ VaultIdle
    /\ InterpIdle
    /\ LoadIdle
    /\ SweepIdle
    /\ ReqIdle
    /\ RedisIdle
    /\ RunIdle
    /\ CatalogIdle
    /\ WriteIdle
    /\ RefIdle
    /\ AuthIdle
    /\ SearchIdle
    /\ FailIdle
    /\ BuildIdle
    /\ CleanupIdle
    /\ VerdictIdle
    /\ TokenIdle
    /\ CredIdle
    /\ RaceIdle
    /\ DownloadIdle
    /\ ShareIdle
    /\ CacheIdle

NextPath ==
    \/ BuildUploadPath
    \/ BuildExamplePath

SpecPath == InitPath /\ [][NextPath]_vars

\* the raw filename contains "../"
HasTraversal(raw) ==
    \E i \in 1..(Len(raw) - 2) : SubSeq(raw, i, i + 2) = <<".", ".", "/">>

\* the raw filename starts with an absolute-path prefix
IsAbsolute(raw) == raw # <<>> /\ Head(raw) = "/"

\* the root a function of the program resolves against
RootOf(fn) == IF fn = "build_upload_path" THEN UPLOAD_ROOT ELSE EXAMPLES_ROOT

\* C4 (amended): for a raw filename with "../" or an absolute prefix the
\* traversal is never honoured: the call fails, or it returns a sanitized
\* name without separator and a path that is not outside the root.
C4_TraversalNeutralized ==
    (pathCall.fn # "none" /\ (HasTraversal(pathCall.raw) \/ IsAbsolute(pathCall.raw)))
        => \/ pathCall.outcome \in {"ValueError", "FileNotFoundError"}
           \/ /\ pathCall.outcome = "returned"
              /\ \A i \in DOMAIN pathCall.safe : pathCall.safe[i] # "/"
              /\ \/ RootOf(pathCall.fn) \in Parents(pathCall.path)
                 \/ pathCall.path = RootOf(pathCall.fn)

\* C4 as stated: every raw filename with "../" or an absolute prefix fails
\* with the invalid-path error.
C4_AsStated ==
    (pathCall.fn # "none" /\ (HasTraversal(pathCall.raw) \/ IsAbsolute(pathCall.raw)))
        => pathCall.outcome = "ValueError"

\* C4 witness: a raw filename with "../" was resolved to a file of the root
C4_Witness ==
    /\ pathCall.fn = "build_upload_path"
    /\ HasTraversal(pathCall.raw)
    /\ pathCall.outcome = "returned"
    /\ pathCall.path = Append(UPLOAD_ROOT, <<"a">>)

\* C5: each call raises, or returns a name without separator or traversal
\* sequence and a path strictly inside the function's own root.
C5_ConfinedToOwnRoot ==
    pathCall.outcome = "returned" =>
        /\ \A i \in DOMAIN pathCall.safe : pathCall.safe[i] # "/"
        /\ pathCall.safe \notin {<<".">>, <<".", ".">>}
        /\ RootOf(pathCall.fn) \in Parents(pathCall.path)
        /\ pathCall.path # RootOf(pathCall.fn)
        /\ OtherRoot(RootOf(pathCall.fn)) \notin Parents(pathCall.path)

(***************************************************************************)
(* SpecVault: tokens are made, altered, forged and decrypted               *)
(***************************************************************************)
InitVault ==
    /\ VaultInit
    /\ LimiterIdle
    /\ CsrfIdle
    /\ PathIdle
    /\ InterpIdle
    /\ LoadIdle
    /\ SweepIdle
    /\ ReqIdle
    /\ RedisIdle
    /\ RunIdle
    /\ CatalogIdle
    /\ WriteIdle
    /\ RefIdle
    /\ AuthIdle
    /\ SearchIdle
    /\ FailIdle
    /\ BuildIdle
    /\ CleanupIdle
    /\ VerdictIdle
    /\ TokenIdle
    /\ CredIdle
    /\ RaceIdle
    /\ DownloadIdle
    /\ ShareIdle
    /\ CacheIdle

NextVault ==
    \/ \E secret_key \in Secrets, credentials \in Credentials :
           Encrypt(secret_key, credentials)
    \/ Tamper
    \/ \E secret_key \in Secrets, data \in ForgedPlaintexts :
           Forge(secret_key, data)
    \/ \E secret_key \in Secrets : Decrypt(secret_key)

SpecVault == InitVault /\ [][NextVault]_vars

\* C6: decrypt(secret, encrypt(secret, creds)) = creds, and decrypting with
\* another secret, or a truncated, tampered or malformed token, fails with
\* ExternalDataAuthError and no other error.
C6_RoundTripOrAuthError ==
    LET origin == decryptCall.origin IN
    decryptCall.outcome # "none" =>
        /\ (origin.by = "encrypt" /\ decryptCall.secret = origin.secret)
               => /\ decryptCall.outcome = "returned"
                  /\ decryptCall.value = origin.creds
        /\ (origin.by = "encrypt" /\ decryptCall.secret # origin.secret)
               => decryptCall.outcome = "ExternalDataAuthError"
        /\ origin.by \in {"tampered", "garbage", "forged"}
               => decryptCall.outcome = "ExternalDataAuthError"

(***************************************************************************)
(* SpecInterp: interpret_results applied to every combination of arguments *)
(***************************************************************************)
InitInterp ==
    /\ InterpInit
    /\ LimiterIdle
    /\ CsrfIdle
    /\ PathIdle
    /\ VaultIdle
    /\ LoadIdle
    /\ SweepIdle
    /\ ReqIdle
    /\ RedisIdle
    /\ RunIdle
    /\ CatalogIdle
    /\ WriteIdle
    /\ RefIdle
    /\ AuthIdle
    /\ SearchIdle
    /\ FailIdle
    /\ BuildIdle
    /\ CleanupIdle
    /\ VerdictIdle
    /\ TokenIdle
    /\ CredIdle
    /\ RaceIdle
    /\ DownloadIdle
    /\ ShareIdle
    /\ CacheIdle

NextInterp == Interpret

SpecInterp == InitInterp /\ [][NextInterp]_vars

Matches == "This matches the expected behavior for this dataset."
Expected == "This deviation is expected for this dataset."
Differs == "This result differs from the typical expectation - worth a closer look."

\* C25: with both statistics present, the remark of the detail is the
\* "matches" one exactly when the expectation is conform and p > 0.05, the
\* "deviation is expected" one exactly when it is nonconform and p <= 0.05,
\* the "differs" one for every other non-empty expectation, and there is no
\* remark when no expectation is given.
C25_AlignmentRemark ==
    (/\ interpCall.outcome = "returned"
     /\ interpArgs.p_value # NoStat
     /\ interpArgs.chi_squared # NoStat) =>
        LET p == interpArgs.p_value
            e == interpArgs.expectation
            remark == interpCall.detail.text
        IN  /\ remark = Matches <=> (e = "conform" /\ p > 5000)
            /\ remark = Expected <=> (e = "nonconform" /\ p <= 5000)
            /\ (/\ e \notin {None, ""}
                /\ ~(e = "conform" /\ p > 5000)
                /\ ~(e = "nonconform" /\ p <= 5000)) => remark = Differs
            /\ e = None => remark = ""

\* a p-value of exactly 0.05 met an expectation of nonconform
C25_Witness ==
    /\ interpCall.outcome = "returned"
    /\ interpArgs.p_value = 5000
    /\ interpArgs.chi_squared # NoStat
    /\ interpArgs.expectation = "nonconform"
    /\ interpCall.detail.text = Expected

(***************************************************************************)
(* SpecLoad: load_data applied to every file and column                    *)
(***************************************************************************)
InitLoad ==
    /\ LoadInit
    /\ LimiterIdle
    /\ CsrfIdle
    /\ PathIdle
    /\ VaultIdle
    /\ InterpIdle
    /\ SweepIdle
    /\ ReqIdle
    /\ RedisIdle
    /\ RunIdle
    /\ CatalogIdle
    /\ WriteIdle
    /\ RefIdle
    /\ AuthIdle
    /\ SearchIdle
    /\ FailIdle
    /\ BuildIdle
    /\ CleanupIdle
    /\ VerdictIdle
    /\ TokenIdle
    /\ CredIdle
    /\ RaceIdle
    /\ DownloadIdle
    /\ ShareIdle
    /\ CacheIdle

NextLoad == CallLoadData

SpecLoad == InitLoad /\ [][NextLoad]_vars

\* the cells of the named column that spell a number, in file order
NumericCells(cells) ==
    SelectSeq(cells, LAMBDA text : text \in {"12", "0"})

\* C8 (as amended): load_data fails with FileNotFoundError when nothing is at
\* the path; when the file exists and parses as CSV it fails with the
\* column-not-found ValueError if the column is absent, with the
\* no-numeric-data ValueError if no cell of the column is numeric, and
\* otherwise returns the non-empty series of the numeric cells; a file that
\* exists but does not parse makes it fail with the parser's own error.
C8_LoadDataOutcome ==
    loadCall.outcome # "none" =>
        /\ ~csvFile.exists => loadCall.outcome = "FileNotFoundError"
        /\ (csvFile.exists /\ ~csvFile.parses) => loadCall.outcome = "ParserError"
        /\ (csvFile.parses /\ column \notin DOMAIN csvFile.columns)
               => /\ loadCall.outcome = "ValueError"
                  /\ loadCall.message = "Column not found"
        /\ (csvFile.parses /\ column \in DOMAIN csvFile.columns)
               => LET cells == NumericCells(csvFile.columns[column]) IN
                  IF cells = <<>>
                  THEN /\ loadCall.outcome = "ValueError"
                       /\ loadCall.message # "Column not found"
                  ELSE /\ loadCall.outcome = "returned"
                       /\ Len(loadCall.series) = Len(cells)
                       /\ \A i \in DOMAIN cells :
                              loadCall.series[i] = (IF cells[i] = "12" THEN 12 ELSE 0)

\* C8 (as stated): the three errors are the only failures: whenever the file
\* exists, the call either fails with one of the two ValueErrors or returns.
C8_AsStated ==
    loadCall.outcome # "none" =>
        /\ ~csvFile.exists => loadCall.outcome = "FileNotFoundError"
        /\ csvFile.exists => loadCall.outcome \in {"ValueError", "returned"}

\* a column mixing numbers with a word was loaded
C8_Witness ==
    /\ loadCall.outcome = "returned"
    /\ csvFile.parses
    /\ column \in DOMAIN csvFile.columns
    /\ csvFile.columns[column] = <<"12", "abc">>

(***************************************************************************)
(* SpecSweep: time passes and folders are swept                            *)
(***************************************************************************)
InitSweep ==
    /\ SweepInit
    /\ LimiterInit
    /\ CsrfIdle
    /\ PathIdle
    /\ VaultIdle
    /\ InterpIdle
    /\ LoadIdle
    /\ max_requests = 1
    /\ window_seconds = 1
    /\ ReqIdle
    /\ RedisIdle
    /\ RunIdle
    /\ CatalogIdle
    /\ WriteIdle
    /\ RefIdle
    /\ AuthIdle
    /\ SearchIdle
    /\ FailIdle
    /\ BuildIdle
    /\ CleanupIdle
    /\ VerdictIdle
    /\ TokenIdle
    /\ CredIdle
    /\ RaceIdle
    /\ DownloadIdle
    /\ ShareIdle
    /\ CacheIdle

NextSweep ==
    \/ Tick(MaxTime)
    \/ \E root \in Folders, older_than \in 1..MaxRetention :
           \E failing \in SUBSET StartNames :
               CleanupStaleFiles(root, older_than, failing)

SpecSweep == InitSweep /\ [][NextSweep]_vars

\* C7 (as amended): cleanup_stale_files(root, maxAge) removes every regular
\* file directly under root that is older than maxAge and whose removal does
\* not fail, retains every file that is newer than maxAge, and changes
\* nothing when root does not exist.
C7_SweepRemovesStale ==
    [][\A root \in Folders, older_than \in 1..MaxRetention :
       \A failing \in SUBSET StartNames :
           CleanupStaleFiles(root, older_than, failing) =>
               /\ root \notin roots => dirs' = dirs
               /\ root \in roots =>
                      \A n \in DOMAIN dirs[root] :
                          /\ (/\ dirs[root][n].kind = "file"
                              /\ clock - dirs[root][n].mtime > older_than
                              /\ n \notin failing)
                                 => n \notin DOMAIN dirs'[root]
                          /\ clock - dirs[root][n].mtime < older_than
                                 => /\ n \in DOMAIN dirs'[root]
                                    /\ dirs'[root][n] = dirs[root][n]]_vars

\* C7 (as stated): the call removes every regular file under root that is
\* older than maxAge.
C7_AsStated ==
    [][\A root \in Folders, older_than \in 1..MaxRetention :
       \A failing \in SUBSET StartNames :
           CleanupStaleFiles(root, older_than, failing) =>
               (root \in roots =>
                    \A n \in DOMAIN dirs[root] :
                        (/\ dirs[root][n].kind = "file"
                         /\ clock - dirs[root][n].mtime > older_than)
                            => n \notin DOMAIN dirs'[root])]_vars

\* a sweep has removed an old file and kept a newer one
C7_Witness ==
    /\ sweepCall.root = "uploads"
    /\ sweepCall.failed = {}
    /\ [stem |-> "old.csv", stamp |-> 0] \in sweepCall.removed
    /\ [stem |-> "data.csv", stamp |-> 0] \in DOMAIN dirs["uploads"]
    /\ dirs["uploads"][[stem |-> "data.csv", stamp |-> 0]].kind = "file"
    /\ sweepCall.now - dirs["uploads"][[stem |-> "data.csv", stamp |-> 0]].mtime
           < sweepCall.older_than

\* C31: a call of cleanup_stale_files removes nothing but regular files
\* directly under its root: every symlink and every subdirectory of the root
\* is still there, unchanged, and no other folder is touched; and when the
\* removal of some files fails, every other stale regular file is removed
\* all the same.
C31_OnlyRegularFiles ==
    [][ sweepCall' # sweepCall =>
            LET root == sweepCall'.root IN
            /\ \A f \in Folders \ {root} : dirs'[f] = dirs[f]
            /\ \A n \in DOMAIN dirs[root] :
                   /\ n \notin DOMAIN dirs'[root] => dirs[root][n].kind = "file"
                   /\ dirs[root][n].kind \in {"symlink", "dir"} =>
                          /\ n \in DOMAIN dirs'[root]
                          /\ dirs'[root][n] = dirs[root][n]
                   /\ (/\ root \in roots
                       /\ dirs[root][n].kind = "file"
                       /\ clock - dirs[root][n].mtime > sweepCall'.older_than
                       /\ n \notin sweepCall'.failed)
                          => n \notin DOMAIN dirs'[root] ]_vars

\* a sweep met a stale symlink, which it left in place, and a stale file
\* whose removal failed
C31_Witness ==
    /\ sweepCall.root = "uploads"
    /\ sweepCall.failed = {[stem |-> "old.csv", stamp |-> 0]}
    /\ [stem |-> "data.csv", stamp |-> 0] \in DOMAIN dirs["uploads"]
    /\ dirs["uploads"][[stem |-> "data.csv", stamp |-> 0]].kind = "symlink"
    /\ sweepCall.now - dirs["uploads"][[stem |-> "data.csv", stamp |-> 0]].mtime
           > sweepCall.older_than

(***************************************************************************)
(* SpecReq: one client and one session send requests while time passes     *)
(***************************************************************************)
InitReq ==
    /\ ReqInit
    /\ LimiterInit
    /\ max_requests = 1
    /\ window_seconds = 1
    /\ retention_age = 1
    /\ CsrfInit
    /\ PathIdle
    /\ VaultIdle
    /\ InterpIdle
    /\ LoadIdle
    /\ RedisIdle
    /\ RunIdle
    /\ CatalogIdle
    /\ WriteIdle
    /\ RefIdle
    /\ AuthIdle
    /\ SearchIdle
    /\ FailIdle
    /\ BuildIdle
    /\ CleanupIdle
    /\ VerdictIdle
    /\ TokenIdle
    /\ CredIdle
    /\ RaceIdle
    /\ DownloadIdle
    /\ ShareIdle
    /\ CacheIdle

\* a form is a csrf_token and the other fields; a handler that rejects the
\* token reads no other field, so one form per rejected token is enough
Forms(inputs) ==
    {form \in ReqFormTokens \X inputs :
        form[1] \notin IssuedTokens => form[2] = CHOOSE i \in inputs : TRUE}

NextReq ==
    \/ Tick(MaxReqTime)
    \/ \E failing \in SUBSET OldNames : GetIndex(failing)
    \/ \E ip \in ReqClients, failing \in SUBSET OldNames :
           \/ \E form \in Forms(UploadInputs) :
                  PostUpload(ip, form[1], form[2], failing)
           \/ \E form \in Forms(PreviewInputs) :
                  PostPreview(ip, form[1], form[2], failing)
           \/ \E form \in Forms(AnalyzeInputs) :
                  PostAnalyze(ip, form[1], form[2], failing)
           \/ \E form \in Forms(ExampleInputs) :
                  PostAnalyzeExample(ip, form[1], form[2], failing)
           \/ \E form \in Forms(KaggleInputs) :
                  PostKaggle(ip, form[1], form[2], failing)
           \/ \E form \in Forms(KagglePreviewInputs) :
                  PostKagglePreview(ip, form[1], form[2], failing)

SpecReq == InitReq /\ [][NextReq]_vars

\* C3: a POST whose CSRF token is missing or mismatched has no side effect:
\* no file is written or deleted, the rate-limiter windows, the session's
\* call record and credentials and the response cache are unchanged, and the
\* caller is redirected with the CSRF warning.
C3_NoSideEffectWithoutCsrf ==
    [][(/\ response'.seq # response.seq
        /\ response'.method = "POST"
        /\ response'.csrf = "False")
          => /\ dirs' = dirs
             /\ store' = store
             /\ kaggle_store' = kaggle_store
             /\ kaggle_cache' = kaggle_cache
             /\ response'.status = "redirect"
             /\ response'.flash = CsrfWarning]_vars

(***************************************************************************)
(* SpecRedis: the same checks are made on both limiters while time passes  *)
(***************************************************************************)
InitRedis ==
    /\ LimiterInit
    /\ RedisInit
    /\ CsrfIdle
    /\ PathIdle
    /\ VaultIdle
    /\ InterpIdle
    /\ LoadIdle
    /\ SweepIdle
    /\ ReqIdle
    /\ RunIdle
    /\ CatalogIdle
    /\ WriteIdle
    /\ RefIdle
    /\ AuthIdle
    /\ SearchIdle
    /\ FailIdle
    /\ BuildIdle
    /\ CleanupIdle
    /\ VerdictIdle
    /\ TokenIdle
    /\ CredIdle
    /\ RaceIdle
    /\ DownloadIdle
    /\ ShareIdle
    /\ CacheIdle

NextRedis ==
    \/ Tick(MaxTime)
    \/ \E k \in Keys : CheckOnBoth(k)

SpecRedis == InitRedis /\ [][NextRedis]_vars

\* C11: for the same sequence of check(identifier) calls at the same times,
\* with the same max and window, the Redis limiter and the in-process limiter
\* return the same admit/deny decision for each call.
C11_SameDecision ==
    redisCheck # NoRedisCheck => redisCheck.ok = lastCheck.ok

(***************************************************************************)
(* SpecRun: run() on every file, column, pair of paths and failing write   *)
(***************************************************************************)
InitRun ==
    /\ RunInit
    /\ LoadInit
    /\ LimiterIdle
    /\ CsrfIdle
    /\ PathIdle
    /\ VaultIdle
    /\ InterpIdle
    /\ SweepIdle
    /\ ReqIdle
    /\ RedisIdle
    /\ CatalogIdle
    /\ WriteIdle
    /\ RefIdle
    /\ AuthIdle
    /\ SearchIdle
    /\ FailIdle
    /\ BuildIdle
    /\ CleanupIdle
    /\ VerdictIdle
    /\ TokenIdle
    /\ CredIdle
    /\ RaceIdle
    /\ DownloadIdle
    /\ ShareIdle
    /\ CacheIdle

NextRun == CallRun

SpecRun == InitRun /\ [][NextRun]_vars

\* C12: in run() a failure while writing the plot does not prevent the report
\* from being written, and a failure while writing the report does not
\* prevent the plot from being written.
C12_IndependentWrites ==
    (runCall # NoRunCall /\ runCall.outcome = "Exception")
        => /\ (runArgs.fault = "plot" /\ runArgs.report_path # None)
                  => runCall.report_written
           /\ (runArgs.fault = "report" /\ runArgs.plot_path # None)
                  => runCall.plot_written

\* the outcomes of run() when load_data raises
LoadFailures == {"FileNotFoundError", "ParserError", "ValueError"}

\* C37 as stated: when run() fails while loading, neither file is written
\* and the results stay unset; and results are returned only after both the
\* plot and the report have been written.
C37_ReturnedAfterBothWritten ==
    runCall # NoRunCall =>
        /\ runCall.outcome \in LoadFailures =>
               /\ ~runCall.plot_written
               /\ ~runCall.report_written
               /\ ~runCall.results_set
        /\ runCall.outcome = "returned" =>
               /\ runCall.plot_written
               /\ runCall.report_written

\* C37, amended: results are returned only after the plot and the report
\* have been written, each of them when its path was given.
C37_ReturnedAfterRequestedWrites ==
    runCall # NoRunCall =>
        /\ runCall.outcome \in LoadFailures =>
               /\ ~runCall.plot_written
               /\ ~runCall.report_written
               /\ ~runCall.results_set
        /\ runCall.outcome = "returned" =>
               /\ runCall.results_set
               /\ runArgs.plot_path # None => runCall.plot_written
               /\ runArgs.report_path # None => runCall.report_written
               /\ runArgs.plot_path = None => ~runCall.plot_written
               /\ runArgs.report_path = None => ~runCall.report_written

\* C37 witness: run() with both paths given failed on a column with no
\* numeric value
C37_Witness ==
    /\ runCall.outcome = "ValueError"
    /\ csvFile.exists
    /\ column \in DOMAIN csvFile.columns
    /\ runArgs.plot_path # None
    /\ runArgs.report_path # None
    /\ ~runCall.results_set

(***************************************************************************)
(* SpecCatalog: one session searches and previews while time passes        *)
(***************************************************************************)
InitCatalog ==
    /\ CatalogInit
    /\ retention_age = 1
    /\ cleanup_interval = 1
    /\ last_cleanup_at = NoTime
    /\ response = NoResponse
    /\ SweepIdle
    /\ LimiterIdle
    /\ CsrfIdle
    /\ PathIdle
    /\ VaultIdle
    /\ InterpIdle
    /\ LoadIdle
    /\ RedisIdle
    /\ RunIdle
    /\ WriteIdle
    /\ RefIdle
    /\ AuthIdle
    /\ SearchIdle
    /\ FailIdle
    /\ BuildIdle
    /\ CleanupIdle
    /\ VerdictIdle
    /\ TokenIdle
    /\ CredIdle
    /\ RaceIdle
    /\ DownloadIdle
    /\ ShareIdle
    /\ CacheIdle

NextCatalog ==
    \/ Tick(MaxCatalogTime)
    \/ \E input \in KaggleInputs : AdmittedKaggle(input)
    \/ \E input \in KagglePreviewInputs : AdmittedKagglePreview(input)

SpecCatalog == InitCatalog /\ [][NextCatalog]_vars

\* the provider calls of the session that returned, inside the window that
\* ends now
SucceededInWindow ==
    Cardinality({i \in DOMAIN remote_times :
                    /\ remote_times[i].ok
                    /\ remote_times[i].at > clock - KAGGLE_CALL_WINDOW})

\* C13: within any rolling window of KAGGLE_CALL_WINDOW the session makes at
\* most KAGGLE_CALL_LIMIT provider invocations (search, metadata fetch,
\* download); here only the invocations that succeeded are counted.
C13_CallBudget == SucceededInWindow <= KAGGLE_CALL_LIMIT

\* C14: a search repeated for the same normalized query within the cache TTL
\* is served from the cache: no provider call is made for it and the
\* session's remaining call budget is the same after the request as before.
C14_CacheHitIsFree ==
    (catalogCall.endpoint = "kaggle" /\ catalogCall.hit)
        => /\ catalogCall.ops = <<>>
           /\ catalogCall.remaining_after = catalogCall.remaining_before

\* C16: a remote file whose declared size exceeds the 50MB limit is rejected
\* before any transfer: the preview request makes no download call.
C16_NoOversizeDownload ==
    (catalogCall.endpoint = "kaggle_preview"
        /\ catalogCall.size > MAX_DOWNLOAD_BYTES)
        => \A i \in DOMAIN catalogCall.ops : catalogCall.ops[i].op # "download"

\* C16 witness: a preview with credentials and budget got the file's
\* metadata, found the declared size over the limit and stopped there
C16_Witness ==
    /\ catalogCall.endpoint = "kaggle_preview"
    /\ catalogCall.size > MAX_DOWNLOAD_BYTES
    /\ catalogCall.ops = <<[op |-> "metadata", ok |-> TRUE]>>

\* C34: a search by a session with credentials and budget left, made while
\* the cache holds an unexpired entry for the query, makes no provider call,
\* whatever the entry holds (an empty result list included); and after a
\* search that read the cache, the cache holds no expired entry for the query.
C34_UnexpiredEntryServes ==
    [][ (/\ catalogCall'.seq # catalogCall.seq
         /\ catalogCall'.endpoint = "kaggle"
         /\ HasKaggleCredentials(kaggle_store, clock)
         /\ RemainingKaggleCalls(kaggle_store, clock) > 0) =>
            /\ ("benford" \in DOMAIN kaggle_cache
                   /\ clock <= kaggle_cache["benford"].expires_at)
                   => catalogCall'.ops = <<>>
            /\ "benford" \in DOMAIN kaggle_cache'
                   => clock <= kaggle_cache'["benford"].expires_at ]_vars

(***************************************************************************)
(* SpecWrite: request threads write files while time passes                *)
(***************************************************************************)
InitWrite ==
    /\ WriteInit
    /\ LimiterIdle
    /\ CsrfIdle
    /\ PathIdle
    /\ VaultIdle
    /\ InterpIdle
    /\ LoadIdle
    /\ SweepIdle
    /\ ReqIdle
    /\ RedisIdle
    /\ RunIdle
    /\ CatalogIdle
    /\ RefIdle
    /\ AuthIdle
    /\ SearchIdle
    /\ FailIdle
    /\ BuildIdle
    /\ CleanupIdle
    /\ VerdictIdle
    /\ TokenIdle
    /\ CredIdle
    /\ RaceIdle
    /\ DownloadIdle
    /\ ShareIdle
    /\ CacheIdle

NextWrite ==
    \/ Tick(MaxWriteTime)
    \/ \E t \in Threads, kind \in WriteKinds, name \in SuppliedNames :
           BeginWrite(t, kind, name)
    \/ \E t \in Threads : EndWrite(t)

SpecWrite == InitWrite /\ [][NextWrite]_vars

\* C15: every file write (upload, remote download, plot, report) targets a
\* path whose generated name is unique to the operation: no two operations
\* in progress at the same time write to the same path.
C15_UniqueTargets ==
    \A t1, t2 \in Threads :
        (t1 # t2 /\ inflight[t1] # NoWrite /\ inflight[t2] # NoWrite)
            => inflight[t1].path # inflight[t2].path

(***************************************************************************)
(* SpecRef: validate_dataset_ref applied to every reference                *)
(***************************************************************************)
InitRef ==
    /\ RefInit
    /\ LimiterIdle
    /\ CsrfIdle
    /\ PathIdle
    /\ VaultIdle
    /\ InterpIdle
    /\ LoadIdle
    /\ SweepIdle
    /\ ReqIdle
    /\ RedisIdle
    /\ RunIdle
    /\ CatalogIdle
    /\ WriteIdle
    /\ AuthIdle
    /\ SearchIdle
    /\ FailIdle
    /\ BuildIdle
    /\ CleanupIdle
    /\ VerdictIdle
    /\ TokenIdle
    /\ CredIdle
    /\ RaceIdle
    /\ DownloadIdle
    /\ ShareIdle
    /\ CacheIdle

NextRef == CallValidateDatasetRef

SpecRef == InitRef /\ [][NextRef]_vars

\* the segments of ref are what lies between its "/" separators: segment
\* i..j is bounded by a separator or an end of the string on either side
IsSegment(ref, i, j) ==
    /\ i \in 1..(Len(ref) + 1)
    /\ j \in (i - 1)..Len(ref)
    /\ (i = 1 \/ ref[i - 1] = "/")
    /\ (j = Len(ref) \/ ref[j + 1] = "/")
    /\ \A m \in i..j : ref[m] # "/"

HasDotDotSegment(ref) ==
    \E i \in 1..Len(ref) :
        IsSegment(ref, i, i + 1) /\ ref[i] = "." /\ ref[i + 1] = "."

HasEmptySegment(ref) == \E i \in 1..(Len(ref) + 1) : IsSegment(ref, i, i - 1)

SlashCount(ref) == Cardinality({i \in DOMAIN ref : ref[i] = "/"})

\* C17: validate_dataset_ref returns the reference or raises
\* ExternalDataError, and no reference that holds a `..` segment, an empty
\* segment or more than one "/" is returned.
C17_StrictReference ==
    refCall # NoRefCall
        => /\ refCall.outcome \in {"returned", "ExternalDataError"}
           /\ refCall.outcome = "returned"
                  => /\ refCall.value = refArg
                     /\ ~HasDotDotSegment(refArg)
                     /\ ~HasEmptySegment(refArg)
                     /\ SlashCount(refArg) <= 1

(***************************************************************************)
(* SpecAuth: authenticate is called again and again with any credentials   *)
(***************************************************************************)
InitAuth ==
    /\ AuthInit
    /\ LimiterIdle
    /\ CsrfIdle
    /\ PathIdle
    /\ VaultIdle
    /\ InterpIdle
    /\ LoadIdle
    /\ SweepIdle
    /\ ReqIdle
    /\ RedisIdle
    /\ RunIdle
    /\ CatalogIdle
    /\ WriteIdle
    /\ RefIdle
    /\ SearchIdle
    /\ FailIdle
    /\ BuildIdle
    /\ CleanupIdle
    /\ VerdictIdle
    /\ TokenIdle
    /\ CredIdle
    /\ RaceIdle
    /\ DownloadIdle
    /\ ShareIdle
    /\ CacheIdle

NextAuth ==
    \E credentials \in AuthCredentials, library \in Libraries :
        CallAuthenticate(credentials, library)

SpecAuth == InitAuth /\ [][NextAuth]_vars

\* a name or key as it stands once the surrounding white space is dropped:
\* at least `least` characters, each a letter, a digit or one of `signs`
WellFormed(value, least, signs) ==
    /\ value # NoneStr
    /\ LET text == Strip(value)
       IN  /\ Len(text) >= least
           /\ \A i \in DOMAIN text : text[i] \in {"a"} \cup signs

\* C18: authenticate called with a missing or malformed username or key
\* raises the authentication error without calling the provider's library
\* and without changing the process environment or the cached client.
C18_FailFast ==
    [][(\/ ~WellFormed(authCall'.credentials.username, 3, {"_", "-"})
        \/ ~WellFormed(authCall'.credentials.key, 8, {"\\", "-"}))
           => /\ authCall'.outcome = "ExternalDataAuthError"
              /\ authCall'.api_calls = 0
              /\ environ' = environ
              /\ api' = api]_vars

\* C18 witness: after an earlier call had set the environment and loaded the
\* client, a call with a username that is too short was refused and left
\* both as they were
C18_Witness ==
    /\ authCall.outcome = "ExternalDataAuthError"
    /\ authCall.credentials.username = Letters(2)
    /\ authCall.credentials.key = Letters(8)
    /\ environ.set
    /\ api.loaded

(***************************************************************************)
(* SpecSearch: search() on every listing the provider may return           *)
(***************************************************************************)
InitSearch ==
    /\ SearchInit
    /\ LimiterIdle
    /\ CsrfIdle
    /\ PathIdle
    /\ VaultIdle
    /\ InterpIdle
    /\ LoadIdle
    /\ SweepIdle
    /\ ReqIdle
    /\ RedisIdle
    /\ RunIdle
    /\ CatalogIdle
    /\ WriteIdle
    /\ RefIdle
    /\ AuthIdle
    /\ FailIdle
    /\ BuildIdle
    /\ CleanupIdle
    /\ VerdictIdle
    /\ TokenIdle
    /\ CredIdle
    /\ RaceIdle
    /\ DownloadIdle
    /\ ShareIdle
    /\ CacheIdle

NextSearch == CallSearch

SpecSearch == InitSearch /\ [][NextSearch]_vars

\* the place in the provider's listing of the dataset a result stands for
ListingPosition(r) == CHOOSE i \in DOMAIN listing : RefOf(listing[i]) = r.ref

\* the listed datasets that hold a file whose name ends in .csv, whatever
\* the case of the letters
HoldsCsv(ds) ==
    \E i \in DOMAIN ds.files :
        LET name == Lower(ds.files[i])
        IN  Len(name) >= 4 /\ SubSeq(name, Len(name) - 3, Len(name)) = <<".", "c", "s", "v">>

\* C19: search returns exactly the listed datasets that hold at least one CSV
\* file, ordered by score descending, and results of equal score keep the
\* provider's relative order.
C19_SearchOrder ==
    searchCall.outcome = "returned"
        => LET results == searchCall.results
           IN  /\ {results[i].ref : i \in DOMAIN results}
                      = {RefOf(listing[i]) : i \in {j \in DOMAIN listing : HoldsCsv(listing[j])}}
               /\ \A i \in DOMAIN results : results[i].csv_files # <<>>
               /\ \A i, j \in DOMAIN results :
                      i < j => /\ results[i].score >= results[j].score
                               /\ results[i].score = results[j].score
                                      => ListingPosition(results[i])
                                             < ListingPosition(results[j])

\* C19 witness: three datasets with CSV files came back, the two of equal
\* score first and in the provider's order, behind them the one of lower
\* score that the provider had listed first
C19_Witness ==
    /\ searchCall.outcome = "returned"
    /\ Len(searchCall.results) = 3
    /\ searchCall.results[1].score = searchCall.results[2].score
    /\ searchCall.results[2].score > searchCall.results[3].score
    /\ ListingPosition(searchCall.results[3]) = 1

(***************************************************************************)
(* SpecFail: an analysis handler runs on every file, column and fault      *)
(***************************************************************************)
\* upload_file has just saved the file and analyze_data has found it
\* (lines 484, 797), so the file exists when the analysis starts
InitFail ==
    /\ FailInit
    /\ LoadInit
    /\ csvFile.exists
    /\ runArgs \in [plot_path : {PlotPath}, report_path : {ReportPath}, fault : Faults]
    /\ runCall = NoRunCall
    /\ LimiterIdle
    /\ CsrfIdle
    /\ PathIdle
    /\ VaultIdle
    /\ InterpIdle
    /\ SweepIdle
    /\ ReqIdle
    /\ RedisIdle
    /\ CatalogIdle
    /\ WriteIdle
    /\ RefIdle
    /\ AuthIdle
    /\ SearchIdle
    /\ BuildIdle
    /\ CleanupIdle
    /\ VerdictIdle
    /\ TokenIdle
    /\ CredIdle
    /\ RaceIdle
    /\ DownloadIdle
    /\ ShareIdle
    /\ CacheIdle

NextFail ==
    \E handler \in AnalysisHandlers, oserror \in OsErrors :
        RunAndReport(handler, oserror)

SpecFail == InitFail /\ [][NextFail]_vars

\* C20: the message shown for an unexpected failure (one caught by the
\* `except Exception` clause) holds no exception detail and no path of the
\* server's file system, and the detail is logged.
C20_GenericMessage ==
    failCall.branch = "Exception"
        => /\ \A i \in DOMAIN failCall.flash :
                  /\ failCall.flash[i].origin = "handler"
                  /\ ~failCall.flash[i].path
           /\ \E i \in DOMAIN failCall.logged :
                  failCall.logged[i].origin = "exception"

\* the columns of the file at hand whose cells are all numbers or empty
NumericColumnNames ==
    {c \in DOMAIN csvFile.columns :
        /\ csvFile.columns[c] # <<>>
        /\ \A i \in DOMAIN csvFile.columns[c] :
               csvFile.columns[c][i] \in {"12", "0", ""}}

\* C21: when loading fails because the named column does not exist, the
\* error the analyzer raises carries the available numeric columns, and the
\* message of either handler lists them.
C21_ErrorCarriesColumns ==
    (failCall.raised = "ValueError" /\ column \notin DOMAIN csvFile.columns)
        => \A c \in NumericColumnNames :
               /\ \E i \in DOMAIN failCall.carried : failCall.carried[i].text = c
               /\ \E i \in DOMAIN failCall.flash : failCall.flash[i].text = c

(***************************************************************************)
(* SpecReset: both limiters take the same checks and are reset             *)
(***************************************************************************)
InitReset ==
    /\ LimiterInit
    /\ RedisInit
    /\ BuiltOnRedis
    /\ CsrfIdle
    /\ PathIdle
    /\ VaultIdle
    /\ InterpIdle
    /\ LoadIdle
    /\ SweepIdle
    /\ ReqIdle
    /\ RunIdle
    /\ CatalogIdle
    /\ WriteIdle
    /\ RefIdle
    /\ AuthIdle
    /\ SearchIdle
    /\ FailIdle
    /\ CleanupIdle
    /\ VerdictIdle
    /\ TokenIdle
    /\ CredIdle
    /\ RaceIdle
    /\ DownloadIdle
    /\ ShareIdle
    /\ CacheIdle

NextReset ==
    \/ Tick(MaxResetTime)
    \/ \E k \in Keys : Len(admitted[k]) < MaxAdmissions /\ CheckOnBoth(k)
    \/ Reset
    \/ RedisRateLimiterReset

SpecReset == InitReset /\ [][NextReset]_vars

\* the identifier is admitted by each of the next n checks made now
AdmittedAgain(entries, n) ==
    \A i \in 0..(n - 1) :
        CheckAdmits(entries \o [j \in 1..i |-> clock'], clock',
                    window_seconds, max_requests)

\* C22: reset() of the in-process limiter leaves every identifier without a
\* list, so that each is admitted by its next max_requests checks; reset() of
\* the limiter built on Redis changes neither a sorted set nor an expiry of the
\* server, and no list of the in-process limiter.
C22_ResetEffects ==
    [][ /\ Reset =>
            \A k \in Keys : /\ store'[k] = <<>>
                            /\ AdmittedAgain(store'[k], max_requests)
        /\ (builtCall'.op = "reset" /\ builtCall' # builtCall) =>
               /\ redis_zsets' = redis_zsets
               /\ redis_expire_at' = redis_expire_at
               /\ store' = store ]_vars

\* the in-process limiter has forgotten an admission of the current window
\* that the server still holds, and the other limiter has been reset too
C22_Witness ==
    /\ builtCall.op = "reset"
    /\ \E k \in Keys :
           /\ store[k] = <<>>
           /\ \E i \in DOMAIN admitted[k] :
                  admitted[k][i] >= clock - window_seconds
           /\ redis_zsets[KeyName(k)] # {}

(***************************************************************************)
(* SpecBuild: a RedisRateLimiter is built and used while the server comes  *)
(* and goes                                                                *)
(***************************************************************************)
InitBuild ==
    /\ LimiterInit
    /\ RedisInit
    /\ BuildInit
    /\ CsrfIdle
    /\ PathIdle
    /\ VaultIdle
    /\ InterpIdle
    /\ LoadIdle
    /\ SweepIdle
    /\ ReqIdle
    /\ RunIdle
    /\ CatalogIdle
    /\ WriteIdle
    /\ RefIdle
    /\ AuthIdle
    /\ SearchIdle
    /\ FailIdle
    /\ CleanupIdle
    /\ VerdictIdle
    /\ TokenIdle
    /\ CredIdle
    /\ RaceIdle
    /\ DownloadIdle
    /\ ShareIdle
    /\ CacheIdle

NextBuild ==
    \/ Tick(MaxBuildTime)
    \/ RedisRateLimiterInit
    \/ RedisOutage
    \/ \E k \in Keys : RedisRateLimiterCheck(k)
    \/ RedisRateLimiterReset

SpecBuild == InitBuild /\ [][NextBuild]_vars

\* C23: a limiter constructed while the server does not answer uses the
\* in-process fallback; once constructed the choice never changes, and no
\* check() ends in a connection error.
C23_FallbackWhenUnreachable ==
    [][ /\ (builtCall'.op = "__init__" /\ ~builtCall'.up) =>
               fallback' = "InMemoryRateLimiter"
        /\ fallback # "unbuilt" => fallback' = fallback
        /\ builtCall'.op = "check" =>
               builtCall'.outcome \in {"True", "False"} ]_vars

(***************************************************************************)
(* SpecCleanup: maybe_run_cleanup is called again and again as time passes *)
(***************************************************************************)
InitCleanup ==
    /\ CleanupInit
    /\ SweepInit
    /\ LimiterInit
    /\ max_requests = 1
    /\ window_seconds = 1
    /\ CsrfIdle
    /\ PathIdle
    /\ VaultIdle
    /\ InterpIdle
    /\ LoadIdle
    /\ RedisIdle
    /\ RunIdle
    /\ CatalogIdle
    /\ WriteIdle
    /\ RefIdle
    /\ AuthIdle
    /\ SearchIdle
    /\ FailIdle
    /\ BuildIdle
    /\ VerdictIdle
    /\ TokenIdle
    /\ CredIdle
    /\ RaceIdle
    /\ DownloadIdle
    /\ ShareIdle
    /\ CacheIdle

NextCleanup ==
    \/ Tick(MaxCleanupTime)
    \/ \E failing \in SUBSET StartNames : CallMaybeRunCleanup(failing)

SpecCleanup == InitCleanup /\ [][NextCleanup]_vars

\* C24: a call made less than cleanup_interval after the last sweep deletes
\* nothing and leaves LAST_CLEANUP_AT as it is; a call made cleanup_interval
\* or more after it sweeps every existing folder (no stale file survives
\* unless its unlink failed) and sets LAST_CLEANUP_AT to the time of the call.
C24_OncePerInterval ==
    [][ (cleanupCall' # cleanupCall /\ last_cleanup_at # NoTime) =>
            IF clock < last_cleanup_at + cleanup_interval
            THEN /\ dirs' = dirs
                 /\ last_cleanup_at' = last_cleanup_at
                 /\ ~cleanupCall'.swept
            ELSE /\ last_cleanup_at' = clock
                 /\ cleanupCall'.swept
                 /\ \A f \in roots : \A n \in DOMAIN dirs'[f] :
                        (dirs'[f][n].kind = "file"
                         /\ clock - dirs'[f][n].mtime > retention_age)
                            => n \in cleanupCall'.failed ]_vars

\* a call made one tick after a sweep, with an interval of two ticks, has
\* returned at once and left a file in place that has become stale since
C24_Witness ==
    /\ ~cleanupCall.swept
    /\ cleanupCall.seq = 0
    /\ cleanupCall.now = clock
    /\ last_cleanup_at = clock - 1
    /\ cleanup_interval = 2
    /\ \E n \in DOMAIN dirs["uploads"] :
           /\ dirs["uploads"][n].kind = "file"
           /\ clock - dirs["uploads"][n].mtime > retention_age
           /\ last_cleanup_at - dirs["uploads"][n].mtime <= retention_age

(***************************************************************************)
(* SpecVerdict: one p-value reaches the report and the interpretation      *)
(***************************************************************************)
InitVerdict ==
    /\ InterpInit
    /\ VerdictInit
    /\ LimiterIdle
    /\ CsrfIdle
    /\ PathIdle
    /\ VaultIdle
    /\ LoadIdle
    /\ SweepIdle
    /\ ReqIdle
    /\ RedisIdle
    /\ RunIdle
    /\ CatalogIdle
    /\ WriteIdle
    /\ RefIdle
    /\ AuthIdle
    /\ SearchIdle
    /\ FailIdle
    /\ BuildIdle
    /\ CleanupIdle
    /\ TokenIdle
    /\ CredIdle
    /\ RaceIdle
    /\ DownloadIdle
    /\ ShareIdle
    /\ CacheIdle

NextVerdict == ReportAndInterpret

SpecVerdict == InitVerdict /\ [][NextVerdict]_vars

\* C26: whatever the p-value, the report and the interpretation agree and use
\* 0.05: above it the report says "No anomaly detected", the headline "likely
\* follows Benford's Law" and the guidance reports no red flags; at or below
\* it the report says "Anomaly detected", the headline "likely does not follow
\* Benford's Law" and the guidance reports a significant deviation.  No other
\* argument changes which side a p-value falls on.
C26_SameThreshold ==
    (reportLine # "" /\ interpCall.outcome = "returned"
                     /\ interpArgs.chi_squared # NoStat) =>
        IF interpArgs.p_value > 5000
        THEN /\ reportLine = "No anomaly detected"
             /\ interpCall.headline[3] = "likely follows Benford's Law"
             /\ interpCall.guidance =
                    "No red flags detected. The first-digit distribution is close to the Benford curve."
        ELSE /\ reportLine = "Anomaly detected"
             /\ interpCall.headline[3] = "likely does not follow Benford's Law"
             /\ interpCall.guidance =
                    "Significant deviation detected. Investigate the data generation process or potential anomalies."

\* a p-value of exactly 0.05 has been reported and interpreted
C26_Witness ==
    /\ reportLine = "Anomaly detected"
    /\ interpCall.outcome = "returned"
    /\ interpArgs.p_value = 5000
    /\ interpArgs.chi_squared # NoStat

(***************************************************************************)
(* SpecCred: credentials are stored and fetched while time passes          *)
(***************************************************************************)
InitCred ==
    /\ CredInit
    /\ ReqIdle
    /\ LimiterInit
    /\ max_requests = 1
    /\ window_seconds = 1
    /\ CsrfIdle
    /\ PathIdle
    /\ VaultIdle
    /\ InterpIdle
    /\ LoadIdle
    /\ SweepIdle
    /\ RedisIdle
    /\ RunIdle
    /\ CatalogIdle
    /\ WriteIdle
    /\ RefIdle
    /\ AuthIdle
    /\ SearchIdle
    /\ FailIdle
    /\ BuildIdle
    /\ CleanupIdle
    /\ VerdictIdle
    /\ TokenIdle
    /\ RaceIdle
    /\ DownloadIdle
    /\ ShareIdle
    /\ CacheIdle

NextCred ==
    \/ Tick(MaxCredTime)
    \/ \E creds \in Credentials : StoreCredentials(creds)
    \/ \E ks \in ForeignStores : ForeignSession(ks)
    \/ FetchCredentials

SpecCred == InitCred /\ [][NextCred]_vars

\* C30: set_kaggle_credentials sets the expiry one hour (four ticks) after
\* the time of storage; get_kaggle_credentials returns the stored username
\* and key while the time is before that expiry; and it returns None without
\* calling decrypt_credentials once the expiry has passed, and when the token
\* is missing or the expiry is missing or unparsable.
C30_UsableUntilExpiry ==
    [][ /\ credOrigin'.by = "set" => kaggle_store'.expires_at = credOrigin'.at + 4
        /\ credCall'.seq # credCall.seq =>
               /\ (credOrigin.by = "set" /\ clock < kaggle_store.expires_at) =>
                      /\ credCall'.outcome = "returned"
                      /\ credCall'.value = credOrigin.creds
               /\ (\/ ~kaggle_store.has_token
                   \/ kaggle_store.expires_at \in {NoTime, UnparsableTime}
                   \/ (kaggle_store.expires_at >= 0
                       /\ clock > kaggle_store.expires_at)) =>
                      /\ credCall'.outcome = "None"
                      /\ ~credCall'.decrypted ]_vars

\* credentials stored by set_kaggle_credentials were fetched after their
\* expiry: nothing was returned and nothing decrypted
C30_Witness ==
    /\ credOrigin.by = "set"
    /\ credCall.seq = 1
    /\ clock > kaggle_store.expires_at
    /\ credCall.outcome = "None"
    /\ ~credCall.decrypted

(***************************************************************************)
(* SpecRace: the request threads run maybe_run_cleanup at the same time    *)
(***************************************************************************)
InitRace ==
    /\ RaceInit
    /\ ReqInit
    /\ LimiterInit
    /\ max_requests = 1
    /\ window_seconds = 1
    /\ CsrfIdle
    /\ PathIdle
    /\ VaultIdle
    /\ InterpIdle
    /\ LoadIdle
    /\ RedisIdle
    /\ RunIdle
    /\ CatalogIdle
    /\ WriteIdle
    /\ RefIdle
    /\ AuthIdle
    /\ SearchIdle
    /\ FailIdle
    /\ BuildIdle
    /\ CleanupIdle
    /\ VerdictIdle
    /\ TokenIdle
    /\ CredIdle
    /\ DownloadIdle
    /\ ShareIdle
    /\ CacheIdle

NextRace ==
    \/ Tick(MaxRaceTime)
    \/ \E t \in CleanupThreads : CleanupRead(t)
    \/ \E t \in CleanupThreads, failing \in SUBSET OldNames : CleanupSweep(t, failing)
    \/ \E t \in CleanupThreads : CleanupStamp(t)

SpecRace == InitRace /\ [][NextRace]_vars

\* the sweeps whose `now` lies in the interval that starts at `start`
SweepsInInterval(start) ==
    Cardinality({i \in DOMAIN sweep_log :
                    /\ start <= sweep_log[i]
                    /\ sweep_log[i] < start + cleanup_interval})

\* C32: however many threads call maybe_run_cleanup at the same time, no
\* interval sees more than two sweeps (the due one and one redundant one).
C32_AtMostOneExtraSweep ==
    \A start \in 0..MaxRaceTime : SweepsInInterval(start) <= 2

(***************************************************************************)
(* SpecDownload: download() on every delivery, reference and file name     *)
(***************************************************************************)
InitDownload ==
    /\ DownloadInit
    /\ LimiterIdle
    /\ CsrfIdle
    /\ TokenIdle
    /\ PathIdle
    /\ VaultIdle
    /\ InterpIdle
    /\ LoadIdle
    /\ SweepIdle
    /\ ReqIdle
    /\ CatalogIdle
    /\ RedisIdle
    /\ RunIdle
    /\ WriteIdle
    /\ RefIdle
    /\ AuthIdle
    /\ SearchIdle
    /\ FailIdle
    /\ BuildIdle
    /\ CleanupIdle
    /\ VerdictIdle
    /\ CredIdle
    /\ RaceIdle
    /\ ShareIdle
    /\ CacheIdle

NextDownload == CallDownload

SpecDownload == InitDownload /\ [][NextDownload]_vars

\* C33: when the provider delivers an archive, download writes the expected
\* file from it and no other member, and the archive is gone afterwards.
C33_ExtractsExpectedOnly ==
    [][ (dlCall'.outcome = "returned" /\ delivery.zipped) =>
            /\ \A p \in DOMAIN parent_dir' :
                   parent_dir'[p] = "archive" => p = dlArgs.file_name
            /\ \A p \in DOMAIN parent_dir :
                   p # dlArgs.file_name =>
                       (p \in DOMAIN parent_dir' => parent_dir'[p] = parent_dir[p])
            /\ ZipName(dlArgs.file_name) \notin DOMAIN parent_dir' ]_vars

(***************************************************************************)
(* SpecBudget: a session at its call limit keeps asking while the window   *)
(* rolls                                                                   *)
(***************************************************************************)
InitBudget ==
    /\ BudgetInit
    /\ retention_age = 1
    /\ cleanup_interval = 1
    /\ last_cleanup_at = NoTime
    /\ response = NoResponse
    /\ SweepIdle
    /\ LimiterIdle
    /\ CsrfIdle
    /\ PathIdle
    /\ VaultIdle
    /\ InterpIdle
    /\ LoadIdle
    /\ RedisIdle
    /\ RunIdle
    /\ WriteIdle
    /\ RefIdle
    /\ AuthIdle
    /\ SearchIdle
    /\ FailIdle
    /\ BuildIdle
    /\ CleanupIdle
    /\ VerdictIdle
    /\ TokenIdle
    /\ CredIdle
    /\ RaceIdle
    /\ DownloadIdle
    /\ ShareIdle
    /\ CacheIdle

NextBudget ==
    \/ Tick(MaxBudgetTime)
    \/ \E input \in KaggleInputs : AdmittedKaggle(input)
    \/ \E input \in KagglePreviewInputs : AdmittedKagglePreview(input)

SpecBudget == InitBudget /\ [][NextBudget]_vars

\* raised by ensure_kaggle_capacity(), line 404
CapacityMessage == "Kaggle API call limit reached for this session."

\* the flashes of a request that returned before ensure_kaggle_capacity()
BeforeCapacityCheck ==
    {"Please provide Kaggle username and API key to search.",
     "Please provide Kaggle credentials before previewing datasets.",
     "Invalid dataset reference"}

\* session['kaggle'] holds as many calls as the limit allows
BudgetSpent == Len(kaggle_store.calls) >= KAGGLE_CALL_LIMIT

\* the age of the oldest recorded call
OldestAge == clock - kaggle_store.calls[1]

\* C35 as stated: once the budget is spent, every request is told that 0
\* calls remain, and one that reaches ensure_kaggle_capacity gets the catalog
\* rate-limit message and reaches no provider, until the oldest recorded
\* call is more than one window old; after that no request gets the message,
\* and the remaining calls are within 0..KAGGLE_CALL_LIMIT.
C35_SpentUntilOlderThanWindow ==
    [][ (catalogCall'.seq # catalogCall.seq /\ BudgetSpent) =>
            /\ catalogCall'.remaining_before \in 0..KAGGLE_CALL_LIMIT
            /\ catalogCall'.remaining_after \in 0..KAGGLE_CALL_LIMIT
            /\ ~(OldestAge > KAGGLE_CALL_WINDOW) =>
                   /\ catalogCall'.remaining_before = 0
                   /\ catalogCall'.remaining_after = 0
                   /\ catalogCall'.flash \notin BeforeCapacityCheck =>
                          /\ catalogCall'.flash = CapacityMessage
                          /\ catalogCall'.ops = <<>>
            /\ OldestAge > KAGGLE_CALL_WINDOW =>
                   catalogCall'.flash # CapacityMessage ]_vars

\* C35, amended: the budget stays spent while the oldest recorded call is
\* less than one window old; a call exactly one window old no longer counts.
C35_SpentWhileYoungerThanWindow ==
    [][ (catalogCall'.seq # catalogCall.seq /\ BudgetSpent) =>
            /\ catalogCall'.remaining_before \in 0..KAGGLE_CALL_LIMIT
            /\ catalogCall'.remaining_after \in 0..KAGGLE_CALL_LIMIT
            /\ OldestAge < KAGGLE_CALL_WINDOW =>
                   /\ catalogCall'.remaining_before = 0
                   /\ catalogCall'.remaining_after = 0
                   /\ catalogCall'.flash \notin BeforeCapacityCheck =>
                          /\ catalogCall'.flash = CapacityMessage
                          /\ catalogCall'.ops = <<>>
            /\ OldestAge >= KAGGLE_CALL_WINDOW =>
                   /\ catalogCall'.remaining_before > 0
                   /\ catalogCall'.flash # CapacityMessage ]_vars

\* a search refused for want of budget, then one served once the calls of
\* the spent budget are a window old
C35_Witness ==
    /\ catalogCall.seq = 2
    /\ catalogCall.endpoint = "kaggle"
    /\ catalogCall.flash = ""
    /\ catalogCall.ops # <<>>
    /\ clock = KAGGLE_CALL_WINDOW
    /\ Len(remote_times) = KAGGLE_CALL_LIMIT + 1

(***************************************************************************)
(* SpecShare: the requests of two sessions use kaggle_source concurrently  *)
(***************************************************************************)
InitShare ==
    /\ ShareInit
    /\ AuthInit
    /\ LimiterIdle
    /\ CsrfIdle
    /\ TokenIdle
    /\ PathIdle
    /\ VaultIdle
    /\ InterpIdle
    /\ LoadIdle
    /\ SweepIdle
    /\ ReqIdle
    /\ CatalogIdle
    /\ RedisIdle
    /\ RunIdle
    /\ WriteIdle
    /\ RefIdle
    /\ SearchIdle
    /\ FailIdle
    /\ BuildIdle
    /\ CleanupIdle
    /\ VerdictIdle
    /\ CredIdle
    /\ RaceIdle
    /\ DownloadIdle
    /\ CacheIdle

NextShare ==
    \/ \E s \in Sessions, endpoint \in {"kaggle", "kaggle_preview"} :
           SessionExport(s, endpoint)
    \/ \E s \in Sessions : SessionLoadApi(s)
    \/ \E s \in Sessions : SessionSearch(s)
    \/ \E s \in Sessions : SessionGetMetadata(s)
    \/ \E s \in Sessions : SessionDownload(s)

SpecShare == InitShare /\ [][NextShare]_vars

\* C38: every remote search, metadata fetch or download issued for a session
\* runs with the client authenticated by that session's own credentials.
C38_OwnCredentials ==
    sharedCall # NoSharedCall =>
        /\ sharedCall.username = SessionCredentials[sharedCall.session].username
        /\ sharedCall.key = SessionCredentials[sharedCall.session].key

(***************************************************************************)
(* SpecCache: threads read and write the cache entry of one key while      *)
(* time passes                                                             *)
(***************************************************************************)
InitCache ==
    /\ CacheInit
    /\ LimiterIdle
    /\ CsrfIdle
    /\ TokenIdle
    /\ PathIdle
    /\ VaultIdle
    /\ InterpIdle
    /\ LoadIdle
    /\ SweepIdle
    /\ ReqIdle
    /\ CatalogIdle
    /\ RedisIdle
    /\ RunIdle
    /\ WriteIdle
    /\ RefIdle
    /\ AuthIdle
    /\ SearchIdle
    /\ FailIdle
    /\ BuildIdle
    /\ CleanupIdle
    /\ VerdictIdle
    /\ CredIdle
    /\ RaceIdle
    /\ DownloadIdle
    /\ ShareIdle

NextCache ==
    \/ Tick(MaxCacheTime)
    \/ \E t \in CacheThreads : CacheGetRead(t)
    \/ \E t \in CacheThreads : CacheGetCheck(t)
    \/ \E t \in CacheThreads : CacheGetPop(t)
    \/ \E t \in CacheThreads, value \in {"results"} : CacheSet(t, value)

SpecCache == InitCache /\ [][NextCache]_vars

\* C39: a cache read never removes an entry that has not expired: the entry
\* a read takes out of the cache has an expiry earlier than the time of the
\* removal.
C39_OnlyExpiredRemoved ==
    (cacheCall.op = "pop" /\ cacheCall.removed # NoEntry)
        => cacheCall.at > cacheCall.removed.expires_at
=============================================================================
